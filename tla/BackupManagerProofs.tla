------------------------- MODULE BackupManagerProofs -------------------------
(***************************************************************************)
(* Proofs about BackupManager, for every file, place and option: the types,*)
(* the teardown on every path, the options and the verdict that a file     *)
(* leaves, the room in argv, and the command line that the utility gets.   *)
(***************************************************************************)
EXTENDS BackupManager, SequenceTheorems, TLAPS

\* What is open and what is set after each step of the initialization: a failure
\* at any stage finds nothing that stop_backup_manager does not undo. A refused
\* initialization changes none of it.
ManagerInv ==
  /\ stage \in Stages
  /\ stage = "down" => ~log_fp /\ backup_home = None
  /\ stage # "down" => log_fp
  /\ stage \in {"home", "reading", "conf", "ready", "backup", "torn"} =>
       backup_home \in made

\* Nothing is open when the library is loaded.
LEMMA ManagerInit == Init => ManagerInv
BY DEF Init, ManagerInv, Stages

\* Every step keeps it.
LEMMA ManagerStep == ManagerInv /\ [Next]_vars => ManagerInv'
<1> SUFFICES ASSUME ManagerInv, [Next]_vars PROVE ManagerInv'
    OBVIOUS
<1> USE DEF ManagerInv, Stages, mgrVars, cmdVars, envVars, histVars
<1>1. CASE OpenLogFile
      BY <1>1 DEF OpenLogFile
<1>2. ASSUME NEW place \in Places, MakeBackupHome(place) PROVE ManagerInv'
      BY <1>2 DEF MakeBackupHome
<1>3. CASE OpenConf \/ EndOfConf
      BY <1>3 DEF OpenConf, EndOfConf
<1>11. CASE ReadLine
  <2> DEFINE line == conf[at + 1]
  <2>1. CASE ReadHeaderOrOther(line) \/ ReadPair(line)
    <3>1. UNCHANGED <<stage, log_fp, backup_home, made>>
          BY <1>11, <2>1 DEF ReadLine, ReadHeaderOrOther, ReadPair
    <3> QED BY <3>1
  <2>2. CASE RefusePair(line)
        BY <2>2 DEF RefusePair, StopManager
  <2> QED BY <1>11, <2>1, <2>2 DEF ReadLine
<1>4. CASE Initialized
      BY <1>4 DEF Initialized
<1>5. CASE InitializeFails \/ InitializeRefused \/ Finalize
      BY <1>5 DEF InitializeFails, InitializeRefused, Finalize, StopManager
<1>6. ASSUME NEW info \in Infos, Begin(info) PROVE ManagerInv'
      BY <1>6 DEF Begin
<1>7. CASE Execute \/ End
      BY <1>7 DEF Execute, End
<1>8. ASSUME NEW lines \in Files, EditConf(lines) PROVE ManagerInv'
      BY <1>8 DEF EditConf
<1>9. CASE ProgramSetsErrno
      BY <1>9 DEF ProgramSetsErrno
<1>10. CASE UNCHANGED vars
      BY <1>10 DEF vars
<1> QED BY <1>1, <1>2, <1>3, <1>4, <1>5, <1>6, <1>7, <1>8, <1>9, <1>10, <1>11 DEF Next

\* Whichever of its own steps made an initialization fail, also one that follows a
\* refused one, the log is closed and no backup home is set; a backup has both, and
\* so has a library that was initialized twice.
THEOREM ManagerDownIsClean == Spec => []DownIsClean
<1>1. ManagerInv => DownIsClean
      BY DEF ManagerInv, DownIsClean
<1> QED BY <1>1, ManagerInit, ManagerStep, PTL DEF Spec

----------------------------------------------------------------------------
(* What the reading of the file keeps true *)

\* The values have their types, and the options and verdict are what EXCEPT needs.
Typed ==
  /\ TypeOK
  /\ option = [k \in Keys |-> option[k]]
  /\ verdict \in [ok : BOOLEAN, valid : BOOLEAN, fresh : BOOLEAN]
  /\ stage # "reading" => at = 0

\* read_state is the section of the last header read.
SectionRead ==
  stage = "reading" =>
    \/ section = None /\ \A j \in 1..at : ~IsHeader(conf[j])
    \/ \E h \in 1..at : Under(conf, h, at + 1) /\ section = conf[h].section

\* The lines read so far are valid, and the options are what these lines mean.
LinesObeyed ==
  stage = "reading" => Valid(conf, at) /\ option = Declared(conf, at)

\* Before the file is judged errno can be ERANGE only if mkdir found no home.
ErangeIsOld ==
  stage \in {"home", "reading"} =>
    verdict.ok /\ verdict.valid /\ (erange => verdict.fresh)

ReadInv == SectionRead /\ LinesObeyed /\ ErangeIsOld /\ OptionsDeclared /\ VerdictRight

\* What the handle and the options ask for, as a command.
Asked ==
  [level |-> handle.level,
   flags |-> {f \in BackupFlags : handle.flag[f]}
             \cup {f \in {"except_active_log"} : option[f]},
   thread_count |-> option["thread_count"],
   sleep_msecs |-> option["sleep_msecs"]]

\* What set_backup_info copied into the handle is what is wanted, and so are the
\* options as long as no initialization reads the file once more.
CommandInv ==
  /\ worker =>
       /\ wanted.level = handle.level
       /\ wanted.flags \cap BackupFlags = {f \in BackupFlags : handle.flag[f]}
       /\ ~reread => wanted = Asked /\ stage # "reading"
  /\ CommandIsWanted

----------------------------------------------------------------------------
(* Types *)

\* A line of the file is one of three kinds, and a header names a section.
LEMMA LineShape ==
  ASSUME Typed
  PROVE  /\ conf \in Seq(Lines) /\ Len(conf) \in Nat
         /\ \A i \in 1..Len(conf) :
              /\ conf[i].kind \in {"other", "header", "pair"}
              /\ IsHeader(conf[i]) => conf[i].section \in Sections
<1>1. conf \in Seq(Lines) /\ Len(conf) \in Nat
      BY ManagerAssumption, LenProperties DEF Typed, TypeOK
<1>2. \A i \in 1..Len(conf) : conf[i] \in Lines
      BY <1>1
<1> QED BY <1>1, <1>2 DEF Lines, Other, IsHeader

\* The defaults are options.
LEMMA DefaultsTyped == OptionsTyped(Defaults) /\ Defaults = [k \in Keys |-> Defaults[k]]
<1>1. \A k \in Keys : Defaults[k] = IF k \in IntKeys THEN 0 ELSE FALSE
      BY DEF Defaults
<1>2. DOMAIN Defaults = Keys /\ Defaults = [k \in Keys |-> Defaults[k]]
      BY DEF Defaults
<1>3. IntKeys \subseteq Keys
      BY DEF Keys, BackupKeys
<1>4. ASSUME NEW k \in IntKeys PROVE Defaults[k] \in 0..IntMax
  <2>1. Defaults[k] = 0
        BY <1>1, <1>3, Zenon
  <2> QED BY <2>1, ManagerAssumption
<1>5. ASSUME NEW k \in Keys \ IntKeys PROVE Defaults[k] \in BOOLEAN
      BY <1>1, Zenon
<1> QED BY <1>2, <1>4, <1>5 DEF OptionsTyped

\* What is stored in an option is of its type.
LEMMA StoreTyped ==
  ASSUME Typed, NEW line, Accepted(line)
  PROVE  LET o == [option EXCEPT ![line.key] = Value(line.key, line.text)]
         IN  OptionsTyped(o) /\ o = [k \in Keys |-> o[k]]
<1> DEFINE v == Value(line.key, line.text)
           o == [option EXCEPT ![line.key] = v]
<1>1. line.key \in Keys
      BY DEF Accepted, SectionKeys, Keys
<1>2. ASSUME line.key \in IntKeys PROVE v \in 0..IntMax
  <2>1. IsInt(line.text)
        BY <1>2 DEF Accepted
  <2>2. v = Number[line.text]
        BY <1>2 DEF Value
  <2> QED BY <2>1, <2>2, ManagerAssumption DEF IsInt
<1>3. ASSUME line.key \notin IntKeys PROVE v \in BOOLEAN
  <2>1. v = (line.text \in TrueTexts)
        BY <1>3 DEF Value
  <2>2. (line.text \in TrueTexts) \in BOOLEAN
        OBVIOUS
  <2> QED BY <2>1, <2>2, Zenon
<1> HIDE DEF v
<1>4. OptionsTyped(option) /\ option = [k \in Keys |-> option[k]]
      BY DEF Typed, TypeOK
<1>5. o = [k \in Keys |-> IF k = line.key THEN v ELSE option[k]]
      BY <1>4
<1>6. DOMAIN o = Keys /\ o = [k \in Keys |-> o[k]]
      BY <1>5
<1>7. \A k \in Keys : o[k] = IF k = line.key THEN v ELSE option[k]
      BY <1>5
<1> HIDE DEF o
<1>8. ASSUME NEW k \in IntKeys PROVE o[k] \in 0..IntMax
  <2>1. k \in Keys /\ option[k] \in 0..IntMax
        BY <1>4 DEF Keys, BackupKeys, OptionsTyped
  <2> QED BY <1>2, <1>7, <2>1
<1>9. ASSUME NEW k \in Keys \ IntKeys PROVE o[k] \in BOOLEAN
  <2>1. option[k] \in BOOLEAN
        BY <1>4 DEF OptionsTyped
  <2> QED BY <1>3, <1>7, <2>1, Zenon
<1>10. OptionsTyped(o)
      BY <1>6, <1>8, <1>9 DEF OptionsTyped
<1> QED BY <1>6, <1>10 DEF o, v

\* A handle without options is one of the handles.
LEMMA NoOptionsTyped ==
  NoOptions \in [level : 0..MaxLevel, flag : [BackupFlags -> BOOLEAN]]
<1>1. 0 \in 0..MaxLevel
      BY ManagerAssumption
<1>2. [f \in BackupFlags |-> FALSE] \in [BackupFlags -> BOOLEAN]
      OBVIOUS
<1> QED BY <1>1, <1>2 DEF NoOptions

\* The library starts with the defaults and no file.
LEMMA TypedInit == Init => Typed
<1> SUFFICES ASSUME Init PROVE Typed
    OBVIOUS
<1>1. conf \in Files /\ Len(conf) = 0
      BY ManagerAssumption DEF Init
<1>2. OptionsTyped(option) /\ option = [k \in Keys |-> option[k]]
      BY DefaultsTyped DEF Init
<1>3. at \in 0..Len(conf) /\ at = 0 /\ section \in Sections \cup {None}
      BY <1>1 DEF Init
<1>4. verdict \in [ok : BOOLEAN, valid : BOOLEAN, fresh : BOOLEAN]
      BY DEF Init
<1> QED BY <1>1, <1>2, <1>3, <1>4, NoOptionsTyped DEF Init, Typed, TypeOK, Stages

\* Every step keeps the types.
LEMMA TypedStep == Typed /\ [Next]_vars => Typed'
<1> SUFFICES ASSUME Typed, [Next]_vars PROVE Typed'
    OBVIOUS
<1> USE DEF Stages, mgrVars, readVars, cmdVars, envVars, histVars
<1>1. CASE OpenLogFile
      BY <1>1 DEF Typed, TypeOK, OptionsTyped, OpenLogFile
<1>2. ASSUME NEW place \in Places, MakeBackupHome(place) PROVE Typed'
      BY <1>2 DEF Typed, TypeOK, OptionsTyped, MakeBackupHome, MkdirErrno
<1>3. CASE OpenConf
  <2>1. OptionsTyped(option') /\ option' = [k \in Keys |-> option'[k]]
        BY <1>3, DefaultsTyped DEF OpenConf, FirstOption
  <2>2. Len(conf) \in Nat
        BY LineShape
  <2> QED BY <1>3, <2>1, <2>2 DEF Typed, TypeOK, OptionsTyped, OpenConf
<1>4. CASE ReadLine
  <2> DEFINE line == conf[at + 1]
  <2>1. at \in 0..Len(conf) /\ at < Len(conf) /\ Len(conf) \in Nat /\ stage = "reading"
        BY <1>4, LineShape DEF ReadLine, Typed, TypeOK
  <2>2. at + 1 \in 1..Len(conf) /\ at + 1 \in 0..Len(conf)
        BY <2>1
  <2>3. IsHeader(line) => line.section \in Sections
        BY <2>2, LineShape
  <2>4. UNCHANGED <<conf, declared, made, handle, worker, reread>>
        BY <1>4 DEF ReadLine
  <2> HIDE DEF line
  <2>5. CASE ReadHeaderOrOther(line)
    <3>1. section' \in Sections \cup {None}
          BY <2>3, <2>5 DEF ReadHeaderOrOther, Typed, TypeOK
    <3> QED BY <2>1, <2>2, <2>4, <2>5, <3>1
            DEF Typed, TypeOK, OptionsTyped, ReadHeaderOrOther
  <2>6. CASE ReadPair(line)
    <3>1. OptionsTyped(option') /\ option' = [k \in Keys |-> option'[k]]
          BY <2>6, StoreTyped DEF ReadPair
    <3> QED BY <2>1, <2>2, <2>4, <2>6, <3>1 DEF Typed, TypeOK, OptionsTyped, ReadPair
  <2>7. CASE RefusePair(line)
    <3>1. ErangeAfter(line) \in BOOLEAN /\ Valid(conf, Len(conf)) \in BOOLEAN
          BY DEF ErangeAfter, Valid, Typed, TypeOK
    <3>2. verdict' \in [ok : BOOLEAN, valid : BOOLEAN, fresh : BOOLEAN]
          BY <2>7, <3>1 DEF RefusePair, Judged, Typed
    <3>3. erange' \in BOOLEAN
          BY <2>7, <3>1, Zenon DEF RefusePair
    <3>4. at' \in 0..Len(conf') /\ at' = 0 /\ section' \in Sections \cup {None}
          BY <2>1, <2>4, <2>7 DEF RefusePair, LeaveReadOption
    <3> QED BY <2>4, <2>7, <3>2, <3>3, <3>4
            DEF Typed, TypeOK, OptionsTyped, RefusePair, StopManager
  <2> QED BY <1>4, <2>5, <2>6, <2>7 DEF ReadLine, line
<1>5. CASE EndOfConf
  <2>1. Valid(conf, Len(conf)) \in BOOLEAN /\ Len(conf) \in Nat
        BY LineShape DEF Valid
  <2>2. verdict' \in [ok : BOOLEAN, valid : BOOLEAN, fresh : BOOLEAN]
        BY <1>5, <2>1 DEF EndOfConf, Judged, Typed
  <2>3. at' \in 0..Len(conf') /\ at' = 0 /\ section' \in Sections \cup {None}
        BY <1>5, <2>1 DEF EndOfConf, LeaveReadOption
  <2> QED BY <1>5, <2>2, <2>3 DEF Typed, TypeOK, OptionsTyped, EndOfConf
<1>6. CASE Initialized
      BY <1>6 DEF Typed, TypeOK, OptionsTyped, Initialized
<1>7. CASE InitializeFails \/ InitializeRefused
      BY <1>7 DEF Typed, TypeOK, OptionsTyped, InitializeFails, InitializeRefused,
                  StopManager, MayLoseErange
<1>8. CASE Finalize
      BY <1>8, NoOptionsTyped
      DEF Typed, TypeOK, OptionsTyped, Finalize, StopManager, FreeHandle, MayLoseErange
<1>9. ASSUME NEW info \in Infos, Begin(info) PROVE Typed'
  <2>1. ASSUME NEW f \in BackupFlags PROVE Merged(info, f) \in BOOLEAN
    <3>1. option[f] \in BOOLEAN
          BY DEF Typed, OptionsTyped, TypeOK, BackupFlags, Keys, IntKeys, BackupKeys
    <3> QED BY <3>1 DEF Merged
  <2>2. handle' \in [level : 0..MaxLevel, flag : [BackupFlags -> BOOLEAN]]
        BY <1>9, <2>1 DEF Begin, InfoAccepted
  <2> QED BY <1>9, <2>2 DEF Typed, TypeOK, OptionsTyped, Begin
<1>10. CASE Execute
      BY <1>10 DEF Typed, TypeOK, OptionsTyped, Execute
<1>11. CASE End
      BY <1>11, NoOptionsTyped DEF Typed, TypeOK, OptionsTyped, End, FreeHandle
<1>12. ASSUME NEW lines \in Files, EditConf(lines) PROVE Typed'
  <2>1. Len(lines) \in Nat
        BY ManagerAssumption, LenProperties
  <2> QED BY <1>12, <2>1 DEF Typed, TypeOK, OptionsTyped, EditConf
<1>13. CASE ProgramSetsErrno
      BY <1>13 DEF Typed, TypeOK, OptionsTyped, ProgramSetsErrno
<1>14. CASE UNCHANGED vars
  <2>1. /\ UNCHANGED <<stage, log_fp, backup_home, option, at, section, made, erange>>
        /\ UNCHANGED <<conf, handle, worker, reread, verdict>>
        BY <1>14 DEF vars
  <2> QED BY <2>1 DEF Typed, TypeOK, OptionsTyped
<1> QED BY <1>1, <1>2, <1>3, <1>4, <1>5, <1>6, <1>7, <1>8, <1>9, <1>10, <1>11, <1>12,
           <1>13, <1>14 DEF Next

\* Every variable keeps a value of its C type, for any file, option text and
\* place; a level is one the utility has.
THEOREM ManagerTypeCorrect == Spec => []TypeOK
<1>1. Typed => TypeOK
      BY DEF Typed
<1> QED BY <1>1, TypedInit, TypedStep, PTL DEF Spec

----------------------------------------------------------------------------
(* What a file means, line by line *)

\* The largest element of a set that has one is what Max chooses.
LEMMA MaxIs ==
  ASSUME NEW S \in SUBSET Nat, NEW m \in S, \A k \in S : k <= m
  PROVE  Max(S) = m
<1>1. \A x \in S : (\A y \in S : x >= y) => x = m
      OBVIOUS
<1>2. \A y \in S : m >= y
      OBVIOUS
<1> QED BY <1>1, <1>2 DEF Max

\* One more line changes what is declared about its own key only.
LEMMA DeclaresNext ==
  ASSUME NEW c, NEW n \in Nat, NEW key
  PROVE  Declares(c, n + 1, key) =
           IF c[n + 1].kind = "pair" /\ c[n + 1].key = key
           THEN Value(key, c[n + 1].text)
           ELSE Declares(c, n, key)
<1> DEFINE About(k) == {i \in 1..k : c[i].kind = "pair" /\ c[i].key = key}
<1>1. ASSUME ~(c[n + 1].kind = "pair" /\ c[n + 1].key = key)
      PROVE  About(n + 1) = About(n)
  <2>1. \A i \in 1..(n + 1) : i \in 1..n \/ i = n + 1
        OBVIOUS
  <2>2. 1..n \subseteq 1..(n + 1)
        OBVIOUS
  <2> QED BY <1>1, <2>1, <2>2
<1>2. ASSUME c[n + 1].kind = "pair" /\ c[n + 1].key = key
      PROVE  About(n + 1) # {} /\ Max(About(n + 1)) = n + 1
  <2>1. n + 1 \in About(n + 1)
        BY <1>2
  <2>2. About(n + 1) \in SUBSET Nat /\ \A k \in About(n + 1) : k <= n + 1
        OBVIOUS
  <2> HIDE DEF About
  <2> QED BY <2>1, <2>2, MaxIs
<1>3. \A k : Declares(c, k, key) =
               IF About(k) = {} THEN Defaults[key] ELSE Value(key, c[Max(About(k))].text)
      BY DEF Declares
<1> HIDE DEF About
<1>4. CASE c[n + 1].kind = "pair" /\ c[n + 1].key = key
      BY <1>2, <1>3, <1>4
<1>5. CASE ~(c[n + 1].kind = "pair" /\ c[n + 1].key = key)
      BY <1>1, <1>3, <1>5
<1> QED BY <1>4, <1>5

\* No line declares anything.
LEMMA DeclaredNone == ASSUME NEW c PROVE Declared(c, 0) = Defaults
<1>1. ASSUME NEW key PROVE Declares(c, 0, key) = Defaults[key]
  <2>1. {i \in 1..0 : c[i].kind = "pair" /\ c[i].key = key} = {}
        OBVIOUS
  <2> QED BY <2>1, Zenon DEF Declares
<1> QED BY <1>1, DefaultsTyped DEF Declared

\* A line that is no pair declares nothing more.
LEMMA DeclaredOther ==
  ASSUME NEW c, NEW n \in Nat, c[n + 1].kind # "pair"
  PROVE  Declared(c, n + 1) = Declared(c, n)
<1>1. \A key : Declares(c, n + 1, key) = Declares(c, n, key)
      BY DeclaresNext
<1> QED BY <1>1, Zenon DEF Declared

\* A pair declares its own key, whatever the lines before it said.
LEMMA DeclaredPair ==
  ASSUME NEW c, NEW n \in Nat, c[n + 1].kind = "pair"
  PROVE  Declared(c, n + 1) =
           [Declared(c, n) EXCEPT ![c[n + 1].key] = Value(c[n + 1].key, c[n + 1].text)]
<1> DEFINE l == c[n + 1]
<1>1. ASSUME NEW key
      PROVE  Declares(c, n + 1, key) =
               IF key = l.key THEN Value(l.key, l.text) ELSE Declares(c, n, key)
      BY DeclaresNext
<1>2. Declared(c, n) = [key \in Keys |-> Declares(c, n, key)]
      BY DEF Declared
<1>3. Declared(c, n + 1) = [key \in Keys |-> Declares(c, n + 1, key)]
      BY DEF Declared
<1> HIDE DEF l
<1>4. [Declared(c, n) EXCEPT ![l.key] = Value(l.key, l.text)]
      = [key \in Keys |-> IF key = l.key THEN Value(l.key, l.text) ELSE Declares(c, n, key)]
      BY <1>2
<1>5. [key \in Keys |-> IF key = l.key THEN Value(l.key, l.text) ELSE Declares(c, n, key)]
      = [key \in Keys |-> Declares(c, n + 1, key)]
      BY <1>1, Zenon
<1> QED BY <1>3, <1>4, <1>5 DEF l

\* A file is valid up to a line if it is up to the one before and the line is.
LEMMA ValidNext ==
  ASSUME NEW c, NEW n \in Nat
  PROVE  Valid(c, n + 1) <=> Valid(c, n) /\ (c[n + 1].kind = "pair" => PairIsValid(c, n + 1))
<1>1. \A i : i \in 1..(n + 1) <=> i \in 1..n \/ i = n + 1
      OBVIOUS
<1> QED BY <1>1, Zenon DEF Valid

\* A file is valid up to each of its lines.
LEMMA ValidPart ==
  ASSUME NEW c, NEW n \in Nat, NEW i \in 1..n, Valid(c, n), c[i].kind = "pair"
  PROVE  PairIsValid(c, i)
BY Zenon DEF Valid

\* A line is under one header at most.
LEMMA UnderOne ==
  ASSUME NEW c, NEW i \in Nat, NEW g \in 1..(i - 1), NEW h \in 1..(i - 1),
         Under(c, g, i), Under(c, h, i)
  PROVE  g = h
<1>1. ASSUME g < h PROVE FALSE
  <2>1. h \in (g + 1)..(i - 1)
        BY <1>1
  <2> QED BY <2>1, Zenon DEF Under
<1>2. ASSUME h < g PROVE FALSE
  <2>1. g \in (h + 1)..(i - 1)
        BY <1>2
  <2> QED BY <2>1, Zenon DEF Under
<1> QED BY <1>1, <1>2

\* The next line is a valid pair just when read_state has its key and its text
\* is one for that key.
LEMMA PairJudged ==
  ASSUME Typed, SectionRead, stage = "reading", at < Len(conf)
  PROVE  PairIsValid(conf, at + 1) <=>
           /\ conf[at + 1].key \in SectionKeys(section)
           /\ Legal(conf[at + 1].key, conf[at + 1].text)
<1>1. at \in Nat /\ (at + 1) - 1 = at
      BY LineShape DEF Typed, TypeOK
<1>2. PairIsValid(conf, at + 1) <=>
        \E h \in 1..at : /\ Under(conf, h, at + 1)
                         /\ conf[at + 1].key \in SectionKeys(conf[h].section)
                         /\ Legal(conf[at + 1].key, conf[at + 1].text)
      BY <1>1 DEF PairIsValid
<1>3. CASE section = None /\ \A j \in 1..at : ~IsHeader(conf[j])
  <2>1. SectionKeys(section) = {}
        BY <1>3 DEF SectionKeys, None
  <2> QED BY <1>2, <1>3, <2>1, Zenon DEF Under
<1>4. CASE \E h \in 1..at : Under(conf, h, at + 1) /\ section = conf[h].section
  <2>1. PICK h \in 1..at : Under(conf, h, at + 1) /\ section = conf[h].section
        BY <1>4
  <2>2. ASSUME NEW g \in 1..at, Under(conf, g, at + 1) PROVE g = h
        BY <1>1, <2>1, <2>2, UnderOne
  <2> QED BY <1>2, <2>1, <2>2, Zenon
<1> QED BY <1>3, <1>4 DEF SectionRead

\* read_state stays the section of the last header.
LEMMA SectionNext ==
  ASSUME Typed, SectionRead, stage = "reading", at < Len(conf),
         conf' = conf, at' = at + 1,
         section' = IF IsHeader(conf[at + 1]) THEN conf[at + 1].section ELSE section
  PROVE  SectionRead'
<1>1. at \in Nat
      BY LineShape DEF Typed, TypeOK
<1>2. CASE IsHeader(conf[at + 1])
  <2>1. at + 1 \in 1..at' /\ (at + 1 + 1)..(at' + 1 - 1) = {}
        BY <1>1
  <2>2. Under(conf, at + 1, at' + 1)
        BY <1>2, <2>1 DEF Under
  <2>3. \E h \in 1..at' : Under(conf, h, at' + 1) /\ section' = conf[h].section
        BY <1>2, <2>1, <2>2
  <2> QED BY <2>3 DEF SectionRead, Under, IsHeader
<1>3. CASE ~IsHeader(conf[at + 1])
  <2>1. \A j \in 1..at' : j \in 1..at \/ j = at + 1
        BY <1>1
  <2>2. CASE section = None /\ \A j \in 1..at : ~IsHeader(conf[j])
    <3>1. section' = None /\ \A j \in 1..at' : ~IsHeader(conf[j])
          BY <1>3, <2>1, <2>2, Zenon
    <3> QED BY <3>1 DEF SectionRead, IsHeader
  <2>3. CASE \E h \in 1..at : Under(conf, h, at + 1) /\ section = conf[h].section
    <3>1. PICK h \in 1..at : Under(conf, h, at + 1) /\ section = conf[h].section
          BY <2>3
    <3>2. h \in 1..at' /\ \A j \in (h + 1)..(at' + 1 - 1) :
                            j \in (h + 1)..(at + 1 - 1) \/ j = at + 1
          BY <1>1
    <3>3. Under(conf, h, at' + 1)
          BY <1>3, <3>1, <3>2 DEF Under
    <3>4. \E g \in 1..at' : Under(conf, g, at' + 1) /\ section' = conf[g].section
          BY <1>3, <3>1, <3>2, <3>3
    <3> QED BY <3>4 DEF SectionRead, Under, IsHeader
  <2> QED BY <2>2, <2>3 DEF SectionRead
<1> QED BY <1>2, <1>3

\* The library starts with no file to read.
LEMMA ReadInit == Init => ReadInv
BY DEF Init, ReadInv, SectionRead, LinesObeyed, ErangeIsOld, OptionsDeclared, VerdictRight

\* A line that is no pair, a pair that is accepted: more of the file is obeyed.
LEMMA LineObeyed ==
  ASSUME Typed, ReadInv, ReadLine,
         ReadHeaderOrOther(conf[at + 1]) \/ ReadPair(conf[at + 1])
  PROVE  ReadInv'
<1> DEFINE line == conf[at + 1]
<1>1. /\ at \in Nat /\ Len(conf) \in Nat /\ at < Len(conf)
      /\ stage = "reading" /\ stage' = "reading" /\ at' = at + 1 /\ conf' = conf
      /\ UNCHANGED <<declared, verdict, erange>>
      BY LineShape DEF Typed, TypeOK, ReadLine, ReadHeaderOrOther, ReadPair
<1>2. section' = IF IsHeader(line) THEN line.section ELSE section
      BY DEF ReadHeaderOrOther, ReadPair, IsHeader
<1>3. SectionRead'
      BY <1>1, <1>2, SectionNext DEF ReadInv
<1>4. Valid(conf, at) /\ option = Declared(conf, at)
      BY <1>1 DEF ReadInv, LinesObeyed
<1>5. Valid(conf, at + 1) /\ option' = Declared(conf, at + 1)
  <2>1. CASE ReadHeaderOrOther(line)
    <3>1. line.kind # "pair" /\ option' = option
          BY <2>1 DEF ReadHeaderOrOther, mgrVars
    <3>2. Valid(conf, at + 1)
          BY <1>1, <1>4, <3>1, ValidNext
    <3>3. Declared(conf, at + 1) = Declared(conf, at)
          BY <1>1, <3>1, DeclaredOther
    <3> QED BY <1>4, <3>1, <3>2, <3>3
  <2>2. CASE ReadPair(line)
    <3>1. Legal(line.key, line.text) /\ line.key \in SectionKeys(section)
          BY <2>2, Zenon DEF ReadPair, Accepted, IsInt, Legal
    <3>2. PairIsValid(conf, at + 1)
          BY <1>1, <3>1, PairJudged DEF ReadInv
    <3>3. Valid(conf, at + 1)
          BY <1>1, <1>4, <3>2, ValidNext
    <3>4. Declared(conf, at + 1) = [option EXCEPT ![line.key] = Value(line.key, line.text)]
          BY <1>1, <1>4, <2>2, DeclaredPair DEF ReadPair
    <3> QED BY <2>2, <3>3, <3>4 DEF ReadPair
  <2> QED BY <2>1, <2>2
<1>6. LinesObeyed'
      BY <1>1, <1>5 DEF LinesObeyed
<1> QED BY <1>1, <1>3, <1>6 DEF ReadInv, ErangeIsOld, OptionsDeclared, VerdictRight

\* A pair that is refused: the file is invalid, or errno was ERANGE before it.
LEMMA LineRefused ==
  ASSUME Typed, ReadInv, ReadLine, RefusePair(conf[at + 1])
  PROVE  ReadInv'
<1> DEFINE line == conf[at + 1]
<1>1. /\ at \in Nat /\ Len(conf) \in Nat /\ at < Len(conf)
      /\ stage = "reading" /\ stage' = "down" /\ verdict' = Judged(FALSE)
      BY LineShape DEF Typed, TypeOK, ReadLine, RefusePair
<1>2. ASSUME Valid(conf, Len(conf)) PROVE verdict.fresh
  <2>1. at + 1 \in 1..Len(conf) /\ line.kind = "pair"
        BY <1>1 DEF RefusePair
  <2>2. PairIsValid(conf, at + 1)
        BY <1>1, <1>2, <2>1, ValidPart
  <2>3. line.key \in SectionKeys(section) /\ Legal(line.key, line.text)
        BY <1>1, <2>2, PairJudged DEF ReadInv
  <2>4. erange
        BY <2>3, Zenon DEF RefusePair, Accepted, Legal, IsInt
  <2> QED BY <1>1, <2>4 DEF ReadInv, ErangeIsOld
<1>3. /\ verdict'.ok = FALSE
      /\ verdict'.valid = Valid(conf, Len(conf))
      /\ verdict'.fresh = verdict.fresh
      BY <1>1 DEF Judged
<1>4. VerdictRight'
      BY <1>2, <1>3, Zenon DEF VerdictRight
<1> QED BY <1>1, <1>4 DEF ReadInv, SectionRead, LinesObeyed, ErangeIsOld, OptionsDeclared

\* The end of the file: all of it is obeyed.
LEMMA FileObeyed ==
  ASSUME Typed, ReadInv, EndOfConf
  PROVE  ReadInv'
<1>1. /\ stage = "reading" /\ stage' = "conf" /\ at = Len(conf) /\ option' = option
      /\ declared' = Declared(conf, Len(conf)) /\ verdict' = Judged(TRUE)
      BY DEF EndOfConf, mgrVars
<1>2. Valid(conf, Len(conf)) /\ option' = declared'
      BY <1>1 DEF ReadInv, LinesObeyed
<1>3. verdict'.ok /\ verdict'.valid
      BY <1>1, <1>2, Zenon DEF Judged
<1> QED BY <1>1, <1>2, <1>3
        DEF ReadInv, SectionRead, LinesObeyed, ErangeIsOld, OptionsDeclared, VerdictRight

\* Every step keeps what is known of the file and the options.
LEMMA ReadStep == Typed /\ ReadInv /\ [Next]_vars => ReadInv'
<1> SUFFICES ASSUME Typed, ReadInv, [Next]_vars PROVE ReadInv'
    OBVIOUS
<1> USE DEF mgrVars, readVars, cmdVars, envVars, histVars
<1>1. CASE OpenLogFile
      BY <1>1 DEF ReadInv, SectionRead, LinesObeyed, ErangeIsOld, OptionsDeclared,
                  VerdictRight, OpenLogFile
<1>2. ASSUME NEW place \in Places, MakeBackupHome(place) PROVE ReadInv'
  <2>1. /\ stage' = "home" /\ verdict'.ok /\ verdict'.valid
        /\ verdict'.fresh <=> place \notin made
        /\ IF place \in made THEN erange' = FALSE ELSE erange' = erange
        BY <1>2 DEF MakeBackupHome, MkdirErrno
  <2> QED BY <2>1 DEF ReadInv, SectionRead, LinesObeyed, ErangeIsOld, OptionsDeclared,
                      VerdictRight
<1>3. CASE OpenConf
  <2>1. /\ stage = "home" /\ stage' = "reading" /\ section' = None /\ at' = 0
        /\ UNCHANGED <<conf, erange, verdict>> /\ option' = Defaults
        BY <1>3 DEF OpenConf, FirstOption
  <2>2. Valid(conf, 0) /\ Defaults = Declared(conf, 0)
        BY DeclaredNone DEF Valid
  <2>3. SectionRead' /\ LinesObeyed'
        BY <2>1, <2>2 DEF SectionRead, LinesObeyed
  <2> QED BY <2>1, <2>3 DEF ReadInv, ErangeIsOld, OptionsDeclared, VerdictRight
<1>4. CASE ReadLine
      BY <1>4, LineObeyed, LineRefused DEF ReadLine
<1>5. CASE EndOfConf
      BY <1>5, FileObeyed
<1>6. ASSUME \/ Initialized \/ InitializeRefused \/ End
             \/ (\E info \in Infos : Begin(info))
      PROVE  ReadInv'
  <2>1. /\ stage \in {"conf", "ready", "backup"} /\ stage' \in {"ready", "backup", "torn"}
        /\ UNCHANGED <<option, declared, verdict>>
        BY <1>6 DEF Initialized, InitializeRefused, End, Begin
  <2> QED BY <2>1 DEF ReadInv, SectionRead, LinesObeyed, ErangeIsOld, OptionsDeclared,
                      VerdictRight
<1>7. ASSUME InitializeFails \/ Finalize \/ ProgramSetsErrno PROVE ReadInv'
  <2>1. /\ stage' = "down" \/ (stage' = "torn" /\ stage = "torn")
        /\ stage' = "torn" => UNCHANGED <<option, declared>>
        /\ verdict' = verdict
        BY <1>7 DEF InitializeFails, Finalize, ProgramSetsErrno
  <2> QED BY <2>1 DEF ReadInv, SectionRead, LinesObeyed, ErangeIsOld, OptionsDeclared,
                      VerdictRight
<1>8. ASSUME NEW lines \in Files, EditConf(lines) PROVE ReadInv'
  <2>1. stage # "reading" /\ UNCHANGED <<stage, option, declared, erange, verdict>>
        BY <1>8 DEF EditConf
  <2> QED BY <2>1 DEF ReadInv, SectionRead, LinesObeyed, ErangeIsOld, OptionsDeclared,
                      VerdictRight
<1>9. CASE Execute \/ UNCHANGED vars
  <2>1. /\ UNCHANGED <<stage, at, section, conf, option>>
        /\ UNCHANGED <<declared, verdict, erange>>
        BY <1>9 DEF Execute, vars
  <2>2. SectionRead'
        BY <2>1, Zenon DEF ReadInv, SectionRead, Under, IsHeader
  <2>3. LinesObeyed'
        BY <2>1, Zenon DEF ReadInv, LinesObeyed
  <2> QED BY <2>1, <2>2, <2>3 DEF ReadInv, ErangeIsOld, OptionsDeclared, VerdictRight
<1> QED BY <1>1, <1>2, <1>3, <1>4, <1>5, <1>6, <1>7, <1>8, <1>9 DEF Next

\* The types and what the reading keeps hold together.
LEMMA FileInvariant == Spec => [](Typed /\ ReadInv)
<1>1. Init => Typed /\ ReadInv
      BY TypedInit, ReadInit
<1>2. (Typed /\ ReadInv) /\ [Next]_vars => (Typed /\ ReadInv)'
      BY TypedStep, ReadStep
<1> QED BY <1>1, <1>2, PTL DEF Spec

\* While the library is up its options are those that the file declared when it
\* was initialized, whatever was in them and in the file before.
THEOREM OptionsAreDeclared == Spec => []OptionsDeclared
<1>1. ReadInv => OptionsDeclared
      BY DEF ReadInv
<1> QED BY <1>1, FileInvariant, PTL

\* A file is accepted only if it is valid, and a valid one is refused only by the
\* initialization that made the backup home.
THEOREM VerdictsAreRight == Spec => []VerdictRight
<1>1. ReadInv => VerdictRight
      BY DEF ReadInv
<1> QED BY <1>1, FileInvariant, PTL

\* Two parts of a command line are together as long as both.
LEMMA Longer ==
  ASSUME NEW S, NEW a \in Seq(S), NEW b \in Seq(S), NEW m \in Nat, NEW n \in Nat,
         Len(a) <= m, Len(b) <= n
  PROVE  a \o b \in Seq(S) /\ Len(a \o b) <= m + n
<1>1. a \o b \in Seq(S) /\ Len(a \o b) = Len(a) + Len(b)
      BY ConcatProperties
<1> QED BY <1>1, LenProperties

\* The longest command line: four words, three flags of one word, the level of
\* two, the number of threads of two, two more flags, the delay and the database.
LEMMA ArgvLength == Len(Argv) <= 15
<1> DEFINE Words == {"", "cubrid", "backupdb", "-D", "fifo_path", "-r", "-l", "-S",
                   "--no-check", "-t", "-z", "-e", "--sleep-msecs=", "db_name"}
           Nums == {0, handle.level, option["thread_count"], option["sleep_msecs"]}
           Entries == [word : Words, num : Nums]
           Part(a, n) == a \in Seq(Entries) /\ Len(a) <= n
<1>1. /\ \A w \in Words : Word(w) \in Entries
      /\ \A n \in Nums : Digits(n) \in Entries /\ Joined("--sleep-msecs=", n) \in Entries
      BY DEF Word, Digits, Joined
<1> HIDE DEF Entries
<1>2. ASSUME NEW e \in Entries PROVE Part(<<e>>, 1)
      OBVIOUS
<1>3. ASSUME NEW e \in Entries, NEW f \in Entries PROVE Part(<<e, f>>, 2)
      OBVIOUS
<1>4. ASSUME NEW c, NEW a, NEW n \in Nat, Part(a, n) PROVE Part(Given(c, a), n)
      BY <1>4 DEF Given
<1>5. ASSUME NEW a, NEW b, NEW m \in Nat, NEW n \in Nat, Part(a, m), Part(b, n)
      PROVE  Part(a \o b, m + n)
      BY <1>5, Longer
<1> DEFINE Start == <<Word("cubrid"), Word("backupdb"), Word("-D"), Word("fifo_path")>>
           Delete == Given(handle.flag["remove_archive"], <<Word("-r")>>)
           AtLevel == Level(handle.level)
           Alone == Given(handle.flag["sa_mode"], <<Word("-S")>>)
           NoCheck == Given(handle.flag["no_check"], <<Word("--no-check")>>)
           Count == Given(option["thread_count"] # 0,
                          <<Word("-t"), Digits(option["thread_count"])>>)
           Compress == Given(handle.flag["compress"], <<Word("-z")>>)
           Except == Given(option["except_active_log"], <<Word("-e")>>)
           Sleep == Given(option["sleep_msecs"] # 0, SleepMsecs(option["sleep_msecs"]))
<1>6. /\ Word("cubrid") \in Entries /\ Word("backupdb") \in Entries
      /\ Word("-D") \in Entries /\ Word("fifo_path") \in Entries
      BY <1>1
<1>7. Part(Start, 4)
      BY <1>6
<1>8. /\ Part(Delete, 1) /\ Part(Alone, 1) /\ Part(NoCheck, 1)
      /\ Part(Compress, 1) /\ Part(Except, 1)
      BY <1>1, <1>2, <1>4
<1>9. Part(AtLevel, 1 + 1)
      BY <1>1, <1>2, <1>4, <1>5 DEF Level
<1>10. Part(Count, 2)
      BY <1>1, <1>3, <1>4
<1>11. Part(Sleep, 1)
      BY <1>1, <1>2, <1>4 DEF SleepMsecs
<1>12. Part(<<Word("db_name")>>, 1)
      BY <1>1, <1>2
<1> HIDE DEF Part, Start, Delete, AtLevel, Alone, NoCheck, Count, Compress, Except, Sleep
<1> DEFINE First == Start \o Delete \o AtLevel
           Second == First \o Alone \o NoCheck \o Count
           Third == Second \o Compress \o Except \o Sleep
<1>13. Part(First, 7)
  <2>1. Part(Start \o Delete, 4 + 1)
        BY <1>5, <1>7, <1>8
  <2> QED BY <1>5, <1>9, <2>1
<1>14. Part(Second, 11)
  <2> HIDE DEF First
  <2>1. Part(First \o Alone, 7 + 1)
        BY <1>5, <1>8, <1>13
  <2>2. Part(First \o Alone \o NoCheck, (7 + 1) + 1)
        BY <1>5, <1>8, <2>1
  <2> QED BY <1>5, <1>10, <2>2
<1>15. Part(Third, 14)
  <2> HIDE DEF Second
  <2>1. Part(Second \o Compress, 11 + 1)
        BY <1>5, <1>8, <1>14
  <2>2. Part(Second \o Compress \o Except, (11 + 1) + 1)
        BY <1>5, <1>8, <2>1
  <2> QED BY <1>5, <1>11, <2>2
<1>16. Part(Third \o <<Word("db_name")>>, 14 + 1)
      BY <1>5, <1>12, <1>15
<1>17. Argv = Third \o <<Word("db_name")>>
      BY DEF Argv, Start, Delete, AtLevel, Alone, NoCheck, Count, Compress, Except, Sleep
<1> QED BY <1>16, <1>17 DEF Part

\* argv has room for every command line and the null pointer that ends it,
\* whatever the caller and the file ask for: it is declared argv[16].
THEOREM CommandLineFits ==
  ASSUME ArgvSize >= 16
  PROVE  Spec => []ArgvFits
<1> USE ManagerAssumption
<1>1. Init => ArgvFits
      BY DEF Init, ArgvFits
<1>2. ArgvFits /\ [Next]_vars => ArgvFits'
  <2> SUFFICES ASSUME ArgvFits, [Next]_vars PROVE ArgvFits'
      OBVIOUS
  <2>1. CASE Execute
        BY <2>1, ArgvLength DEF Execute, ArgvFits
  <2>2. ASSUME argv' = <<>> PROVE ArgvFits'
        BY <2>2 DEF ArgvFits
  <2>3. ASSUME argv' = argv PROVE ArgvFits'
        BY <2>3 DEF ArgvFits
  <2>4. CASE Next /\ ~Execute
        BY <2>2, <2>3, <2>4
        DEF Next, OpenLogFile, MakeBackupHome, OpenConf, ReadLine, EndOfConf, Initialized,
            InitializeFails, InitializeRefused, Finalize, FreeHandle, Begin, End,
            EditConf, ProgramSetsErrno,
            cmdVars
  <2> QED BY <2>1, <2>3, <2>4 DEF vars, cmdVars
<1> QED BY <1>1, <1>2, PTL DEF Spec

----------------------------------------------------------------------------
(* What cubrid backupdb makes of the command line *)

PlainWords == {"cubrid", "backupdb", "-D", "fifo_path", "-r", "-S", "--no-check", "-z",
               "-e", "db_name"}
NumberWords == {"-l", "-t", "--sleep-msecs="}
Entries == [word : PlainWords \cup NumberWords \cup {""}, num : Nat]

WordsOf(a) == {a[i].word : i \in DOMAIN a}

\* Every w in a command line is followed by n; every w is joined to n.
Followed(a, w, n) ==
  \A i \in DOMAIN a : a[i].word = w => i + 1 \in DOMAIN a /\ a[i + 1].num = n
JoinedTo(a, w, n) == \A i \in DOMAIN a : a[i].word = w => a[i].num = n

\* One part of a command line, with the words W, that says nothing but the level l,
\* the number of threads t and the delay s.
Says(a, W, l, t, s) ==
  /\ a \in Seq(Entries)
  /\ WordsOf(a) = W
  /\ Followed(a, "-l", l)
  /\ Followed(a, "-t", t)
  /\ JoinedTo(a, "--sleep-msecs=", s)

\* Two parts say together what each of them says.
LEMMA Together ==
  ASSUME NEW a, NEW b, NEW V, NEW W, NEW l, NEW t, NEW s,
         Says(a, V, l, t, s), Says(b, W, l, t, s)
  PROVE  Says(a \o b, V \cup W, l, t, s)
<1> DEFINE c == a \o b
<1>1. /\ a \in Seq(Entries) /\ b \in Seq(Entries)
      /\ WordsOf(a) = V /\ WordsOf(b) = W
      BY DEF Says
<1>2. /\ c \in Seq(Entries) /\ Len(c) = Len(a) + Len(b)
      /\ Len(a) \in Nat /\ Len(b) \in Nat
      /\ DOMAIN a = 1..Len(a) /\ DOMAIN b = 1..Len(b) /\ DOMAIN c = 1..Len(c)
      BY <1>1, ConcatProperties, LenProperties
<1>3. /\ \A i \in DOMAIN a : i \in DOMAIN c /\ c[i] = a[i]
      /\ \A i \in DOMAIN b : i + Len(a) \in DOMAIN c /\ c[i + Len(a)] = b[i]
      BY <1>1, <1>2
<1>4. ASSUME NEW i \in DOMAIN c
      PROVE  i \in DOMAIN a \/ \E j \in DOMAIN b : i = j + Len(a)
  <2>1. i \in 1..Len(a) \/ i - Len(a) \in 1..Len(b)
        BY <1>2
  <2>2. i = (i - Len(a)) + Len(a)
        BY <1>2
  <2> QED BY <1>2, <2>1, <2>2
<1> HIDE DEF c
<1>5. WordsOf(c) = V \cup W
  <2>1. ASSUME NEW w \in WordsOf(c) PROVE w \in V \cup W
    <3>1. PICK i \in DOMAIN c : w = c[i].word
          BY <2>1 DEF WordsOf
    <3>2. CASE i \in DOMAIN a
          BY <1>1, <1>3, <3>1, <3>2 DEF WordsOf
    <3>3. CASE \E j \in DOMAIN b : i = j + Len(a)
          BY <1>1, <1>3, <3>1, <3>3 DEF WordsOf
    <3> QED BY <1>4, <3>2, <3>3
  <2>2. ASSUME NEW w \in V PROVE w \in WordsOf(c)
        BY <1>1, <1>3, <2>2 DEF WordsOf
  <2>3. ASSUME NEW w \in W PROVE w \in WordsOf(c)
        BY <1>1, <1>3, <2>3 DEF WordsOf
  <2> QED BY <2>1, <2>2, <2>3
<1>6. ASSUME NEW w, NEW n, Followed(a, w, n), Followed(b, w, n)
      PROVE  Followed(c, w, n)
  <2> SUFFICES ASSUME NEW i \in DOMAIN c, c[i].word = w
               PROVE  i + 1 \in DOMAIN c /\ c[i + 1].num = n
      BY DEF Followed
  <2>1. CASE i \in DOMAIN a
        BY <1>3, <1>6, <2>1 DEF Followed
  <2>2. ASSUME NEW j \in DOMAIN b, i = j + Len(a)
        PROVE  i + 1 \in DOMAIN c /\ c[i + 1].num = n
    <3>1. j + 1 \in DOMAIN b /\ b[j + 1].num = n
          BY <1>3, <1>6, <2>2 DEF Followed
    <3>2. i + 1 = (j + 1) + Len(a)
          BY <1>2, <2>2
    <3> QED BY <1>3, <3>1, <3>2
  <2> QED BY <1>4, <2>1, <2>2
<1>7. ASSUME NEW w, NEW n, JoinedTo(a, w, n), JoinedTo(b, w, n)
      PROVE  JoinedTo(c, w, n)
  <2> SUFFICES ASSUME NEW i \in DOMAIN c, c[i].word = w PROVE c[i].num = n
      BY DEF JoinedTo
  <2>1. CASE i \in DOMAIN a
        BY <1>3, <1>7, <2>1 DEF JoinedTo
  <2>2. CASE \E j \in DOMAIN b : i = j + Len(a)
        BY <1>3, <1>7, <2>2 DEF JoinedTo
  <2> QED BY <1>4, <2>1, <2>2
<1> QED BY <1>2, <1>5, <1>6, <1>7 DEF Says, c

\* A part that is left out says nothing.
LEMMA SaysGiven ==
  ASSUME NEW a, NEW W, NEW l, NEW t, NEW s, NEW x, x => Says(a, W, l, t, s)
  PROVE  Says(Given(x, a), IF x THEN W ELSE {}, l, t, s)
<1>1. CASE x
      BY <1>1 DEF Given
<1>2. CASE ~x
  <2>1. Says(<<>>, {}, l, t, s)
        BY DEF Says, WordsOf, Followed, JoinedTo
  <2> QED BY <1>2, <2>1 DEF Given
<1> QED BY <1>1, <1>2

\* A word alone is the word.
LEMMA SaysWord ==
  ASSUME NEW w \in PlainWords, NEW l, NEW t, NEW s
  PROVE  Says(<<Word(w)>>, {w}, l, t, s)
<1>1. Word(w) \in Entries /\ Word(w).word = w
      BY DEF Word, Entries
<1>2. w \notin NumberWords
      BY DEF PlainWords, NumberWords
<1> QED BY <1>1, <1>2 DEF Says, WordsOf, Followed, JoinedTo, NumberWords

\* Two entries one after the other.
LEMMA Pairing ==
  ASSUME NEW e \in Entries, NEW f \in Entries
  PROVE  <<e>> \o <<f>> = <<e, f>>
<1>1. <<e>> \in Seq(Entries) /\ <<f>> \in Seq(Entries) /\ <<e, f>> \in Seq(Entries)
      OBVIOUS
<1> HIDE DEF Entries
<1>2. /\ <<e>> \o <<f>> \in Seq(Entries) /\ Len(<<e>> \o <<f>>) = 2
      /\ (<<e>> \o <<f>>)[1] = e /\ (<<e>> \o <<f>>)[2] = f
      BY <1>1, ConcatProperties
<1>3. \A i \in 1..2 : (<<e>> \o <<f>>)[i] = <<e, f>>[i]
      BY <1>2
<1> QED BY <1>1, <1>2, <1>3, SeqEqual

\* What two entries say of one word.
LEMMA TwoEntries ==
  ASSUME NEW e \in Entries, NEW f \in Entries, NEW w, NEW n, f.word # w
  PROVE  /\ <<e, f>> \in Seq(Entries)
         /\ WordsOf(<<e, f>>) = {e.word, f.word}
         /\ (e.word = w => f.num = n) => Followed(<<e, f>>, w, n)
         /\ e.word # w => JoinedTo(<<e, f>>, w, n)
<1> DEFINE a == <<e, f>>
<1>1. a \in Seq(Entries)
      OBVIOUS
<1>2. DOMAIN a = {1, 2} /\ a[1] = e /\ a[2] = f
      OBVIOUS
<1> HIDE DEF a
<1>3. WordsOf(a) = {e.word, f.word}
      BY <1>2 DEF WordsOf
<1>4. ASSUME e.word = w => f.num = n PROVE Followed(a, w, n)
      BY <1>2, <1>4 DEF Followed
<1>5. ASSUME e.word # w PROVE JoinedTo(a, w, n)
      BY <1>2, <1>5 DEF JoinedTo
<1> QED BY <1>1, <1>3, <1>4, <1>5 DEF a

\* A word and a number in digits after it.
LEMMA SaysTwo ==
  ASSUME NEW e \in Entries, NEW f \in Entries, NEW l, NEW t, NEW s,
         f.word = "",
         \/ e.word = "-l" /\ f.num = l
         \/ e.word = "-t" /\ f.num = t
  PROVE  Says(<<e, f>>, {e.word, ""}, l, t, s)
<1>1. f.word # "-l" /\ f.word # "-t" /\ f.word # "--sleep-msecs="
      OBVIOUS
<1>2. /\ e.word = "-l" => f.num = l
      /\ e.word = "-t" => f.num = t
      /\ e.word # "--sleep-msecs="
      OBVIOUS
<1>3. Followed(<<e, f>>, "-l", l)
      BY <1>1, <1>2, TwoEntries
<1>4. Followed(<<e, f>>, "-t", t)
      BY <1>1, <1>2, TwoEntries
<1>5. JoinedTo(<<e, f>>, "--sleep-msecs=", s)
      BY <1>1, <1>2, TwoEntries
<1>6. <<e, f>> \in Seq(Entries) /\ WordsOf(<<e, f>>) = {e.word, ""}
      BY <1>1, TwoEntries
<1> QED BY <1>3, <1>4, <1>5, <1>6, Zenon DEF Says

\* The three parts that carry a number.
LEMMA SaysNumbers ==
  ASSUME NEW l \in 0..2, NEW t \in Nat, NEW s \in Nat
  PROVE  /\ Says(Level(l), {"-l", ""}, l, t, s)
         /\ Says(<<Word("-t"), Digits(t)>>, {"-t", ""}, l, t, s)
         /\ Says(SleepMsecs(s), {"--sleep-msecs="}, l, t, s)
<1>1. ASSUME NEW n \in Nat
      PROVE  Digits(n) \in Entries /\ Digits(n).word = "" /\ Digits(n).num = n
      BY DEF Digits, Entries
<1>2. ASSUME NEW w \in NumberWords PROVE Word(w) \in Entries /\ Word(w).word = w
      BY DEF Word, Entries
<1>3. Level(l) = <<Word("-l"), Digits(l)>>
  <2>1. Given(l \in 0..2, <<Digits(l)>>) = <<Digits(l)>>
        BY DEF Given
  <2>2. Word("-l") \in Entries /\ Digits(l) \in Entries
    <3>1. "-l" \in NumberWords
          BY DEF NumberWords
    <3>2. l \in Nat
          OBVIOUS
    <3> QED BY <1>1, <1>2, <3>1, <3>2
  <2> QED BY <2>1, <2>2, Pairing DEF Level
<1>4. Says(<<Word("-l"), Digits(l)>>, {"-l", ""}, l, t, s)
  <2>1. Word("-l") \in Entries /\ Word("-l").word = "-l"
        BY <1>2 DEF NumberWords
  <2>2. Digits(l) \in Entries /\ Digits(l).word = "" /\ Digits(l).num = l
    <3>1. l \in Nat
          OBVIOUS
    <3> QED BY <1>1, <3>1
  <2> QED BY <2>1, <2>2, SaysTwo
<1>5. Says(<<Word("-t"), Digits(t)>>, {"-t", ""}, l, t, s)
  <2>1. Word("-t") \in Entries /\ Word("-t").word = "-t"
        BY <1>2 DEF NumberWords
  <2>2. Digits(t) \in Entries /\ Digits(t).word = "" /\ Digits(t).num = t
        BY <1>1
  <2> QED BY <2>1, <2>2, SaysTwo
<1>6. Says(SleepMsecs(s), {"--sleep-msecs="}, l, t, s)
  <2> DEFINE e == Joined("--sleep-msecs=", s)
  <2>1. e \in Entries /\ e.word = "--sleep-msecs=" /\ e.num = s
        BY DEF Joined, Entries, NumberWords
  <2> HIDE DEF e
  <2>2. Says(<<e>>, {"--sleep-msecs="}, l, t, s)
        BY <2>1 DEF Says, WordsOf, Followed, JoinedTo
  <2> QED BY <2>2 DEF SleepMsecs, e
<1> QED BY <1>3, <1>4, <1>5, <1>6

\* The four words that open it.
LEMMA StartSays ==
  ASSUME NEW l, NEW t, NEW s
  PROVE  Says(<<Word("cubrid"), Word("backupdb"), Word("-D"), Word("fifo_path")>>,
              {"cubrid", "backupdb", "-D", "fifo_path"}, l, t, s)
<1> DEFINE a == <<Word("cubrid"), Word("backupdb"), Word("-D"), Word("fifo_path")>>
           W == {"cubrid", "backupdb", "-D", "fifo_path"}
<1>1. /\ Word("cubrid") \in Entries /\ Word("backupdb") \in Entries
      /\ Word("-D") \in Entries /\ Word("fifo_path") \in Entries
      BY DEF Word, Entries, PlainWords
<1>2. a \in Seq(Entries)
      BY <1>1
<1>3. DOMAIN a = 1..4
      OBVIOUS
<1>4. a[1].word = "cubrid" /\ a[2].word = "backupdb" /\ a[3].word = "-D"
      /\ a[4].word = "fifo_path"
      BY DEF Word
<1> HIDE DEF a
<1>5. WordsOf(a) = W
      BY <1>3, <1>4 DEF WordsOf
<1>6. ASSUME NEW i \in DOMAIN a PROVE a[i].word \notin NumberWords
  <2>1. a[i].word \in W
        BY <1>5 DEF WordsOf
  <2> QED BY <2>1 DEF NumberWords
<1> QED BY <1>2, <1>5, <1>6 DEF Says, Followed, JoinedTo, NumberWords, a

\* The words of the command line: those it always has, and one for each option.
ArgvWords ==
  {"cubrid", "backupdb", "-D", "fifo_path", "-l", "", "db_name"}
  \cup (IF handle.flag["remove_archive"] THEN {"-r"} ELSE {})
  \cup (IF handle.flag["sa_mode"] THEN {"-S"} ELSE {})
  \cup (IF handle.flag["no_check"] THEN {"--no-check"} ELSE {})
  \cup (IF option["thread_count"] # 0 THEN {"-t", ""} ELSE {})
  \cup (IF handle.flag["compress"] THEN {"-z"} ELSE {})
  \cup (IF option["except_active_log"] THEN {"-e"} ELSE {})
  \cup (IF option["sleep_msecs"] # 0 THEN {"--sleep-msecs="} ELSE {})

\* The command line has these words, with the numbers of the handle and the options.
LEMMA ArgvSays ==
  ASSUME Typed, MaxLevel <= 2
  PROVE  Says(Argv, ArgvWords, handle.level, option["thread_count"], option["sleep_msecs"])
<1> DEFINE Part(a, W) ==
             Says(a, W, handle.level, option["thread_count"], option["sleep_msecs"])
           If(x, W) == IF x THEN W ELSE {}
<1>1. /\ handle.level \in 0..2
      /\ option["thread_count"] \in Nat /\ option["sleep_msecs"] \in Nat
  <2>1. handle.level \in 0..MaxLevel
        BY DEF Typed, TypeOK
  <2>2. /\ "thread_count" \in IntKeys /\ "sleep_msecs" \in IntKeys
        BY DEF IntKeys
  <2>3. ASSUME NEW k \in IntKeys PROVE option[k] \in Nat
    <3>1. option[k] \in 0..IntMax
          BY DEF Typed, TypeOK, OptionsTyped
    <3> QED BY <3>1, ManagerAssumption
  <2>4. handle.level \in 0..2
        BY <2>1, ManagerAssumption
  <2> QED BY <2>2, <2>3, <2>4
<1>2. \A w \in PlainWords : Part(<<Word(w)>>, {w})
      BY SaysWord
<1>3. /\ Part(Level(handle.level), {"-l", ""})
      /\ Part(<<Word("-t"), Digits(option["thread_count"])>>, {"-t", ""})
      /\ Part(SleepMsecs(option["sleep_msecs"]), {"--sleep-msecs="})
      BY <1>1, SaysNumbers
<1>4. ASSUME NEW a, NEW b, NEW V, NEW W, Part(a, V), Part(b, W) PROVE Part(a \o b, V \cup W)
      BY <1>4, Together
<1>5. ASSUME NEW a, NEW W, NEW x, Part(a, W) PROVE Part(Given(x, a), If(x, W))
      BY <1>5, SaysGiven
<1> HIDE DEF Part
<1> DEFINE Start == <<Word("cubrid"), Word("backupdb"), Word("-D"), Word("fifo_path")>>
           Delete == Given(handle.flag["remove_archive"], <<Word("-r")>>)
           AtLevel == Level(handle.level)
           Alone == Given(handle.flag["sa_mode"], <<Word("-S")>>)
           NoCheck == Given(handle.flag["no_check"], <<Word("--no-check")>>)
           Count == Given(option["thread_count"] # 0,
                          <<Word("-t"), Digits(option["thread_count"])>>)
           Compress == Given(handle.flag["compress"], <<Word("-z")>>)
           Except == Given(option["except_active_log"], <<Word("-e")>>)
           Sleep == Given(option["sleep_msecs"] # 0, SleepMsecs(option["sleep_msecs"]))
           Final == <<Word("db_name")>>
           Opening == {"cubrid", "backupdb", "-D", "fifo_path"}
           R == If(handle.flag["remove_archive"], {"-r"})
           S == If(handle.flag["sa_mode"], {"-S"})
           N == If(handle.flag["no_check"], {"--no-check"})
           T == If(option["thread_count"] # 0, {"-t", ""})
           Z == If(handle.flag["compress"], {"-z"})
           E == If(option["except_active_log"], {"-e"})
           M == If(option["sleep_msecs"] # 0, {"--sleep-msecs="})
<1>6. Part(Start, Opening)
      BY StartSays DEF Part
<1>7. Part(Delete, R) /\ Part(Alone, S) /\ Part(NoCheck, N)
      BY <1>2, <1>5 DEF PlainWords
<1>8. Part(Compress, Z) /\ Part(Except, E) /\ Part(Final, {"db_name"})
      BY <1>2, <1>5 DEF PlainWords
<1>9. Part(AtLevel, {"-l", ""}) /\ Part(Count, T) /\ Part(Sleep, M)
      BY <1>3, <1>5
<1> HIDE DEF Start, Delete, AtLevel, Alone, NoCheck, Count, Compress, Except, Sleep, Final
<1> HIDE DEF Opening, R, S, N, T, Z, E, M
<1>10. Part(Start \o Delete \o AtLevel, Opening \cup R \cup {"-l", ""})
      BY <1>4, <1>6, <1>7, <1>9
<1> DEFINE A == Start \o Delete \o AtLevel
           AW == Opening \cup R \cup {"-l", ""}
<1> HIDE DEF A, AW
<1>11. Part(A \o Alone \o NoCheck \o Count, AW \cup S \cup N \cup T)
  <2>1. Part(A, AW)
        BY <1>10 DEF A, AW
  <2>2. Part(A \o Alone, AW \cup S)
        BY <1>4, <1>7, <2>1
  <2>3. Part(A \o Alone \o NoCheck, AW \cup S \cup N)
        BY <1>4, <1>7, <2>2
  <2> QED BY <1>4, <1>9, <2>3
<1> DEFINE B == A \o Alone \o NoCheck \o Count
           BW == AW \cup S \cup N \cup T
<1> HIDE DEF B, BW
<1>12. Part(B \o Compress \o Except \o Sleep \o Final, BW \cup Z \cup E \cup M \cup {"db_name"})
  <2>1. Part(B, BW)
        BY <1>11 DEF B, BW
  <2>2. Part(B \o Compress, BW \cup Z)
        BY <1>4, <1>8, <2>1
  <2>3. Part(B \o Compress \o Except, BW \cup Z \cup E)
        BY <1>4, <1>8, <2>2
  <2>4. Part(B \o Compress \o Except \o Sleep, BW \cup Z \cup E \cup M)
        BY <1>4, <1>9, <2>3
  <2> QED BY <1>4, <1>8, <2>4
<1>13. Argv = B \o Compress \o Except \o Sleep \o Final
      BY DEF Argv, Start, Delete, AtLevel, Alone, NoCheck, Count, Compress, Except, Sleep,
             Final, A, B
<1>14. ArgvWords = BW \cup Z \cup E \cup M \cup {"db_name"}
  <2>1. ArgvWords = {"cubrid", "backupdb", "-D", "fifo_path", "-l", "", "db_name"}
                    \cup R \cup S \cup N \cup T \cup Z \cup E \cup M
        BY DEF ArgvWords, R, S, N, T, Z, E, M
  <2> QED BY <2>1 DEF BW, AW, Opening
<1> QED BY <1>12, <1>13, <1>14 DEF Part

\* An entry with a word is there just when the word is.
LEMMA HasWord ==
  ASSUME NEW a, NEW w
  PROVE  (\E i \in DOMAIN a : a[i].word = w) <=> w \in WordsOf(a)
BY DEF WordsOf

\* The numbers that the utility takes from a command line.
LEMMA TakesNumbers ==
  ASSUME NEW a, NEW W, NEW l, NEW t, NEW s, Says(a, W, l, t, s)
  PROVE  /\ NumberAfter(a, "-l") = IF "-l" \in W THEN l ELSE 0
         /\ NumberAfter(a, "-t") = IF "-t" \in W THEN t ELSE 0
         /\ NumberJoined(a, "--sleep-msecs=") = IF "--sleep-msecs=" \in W THEN s ELSE 0
<1>1. ASSUME NEW w, NEW n, Followed(a, w, n)
      PROVE  NumberAfter(a, w) = IF w \in WordsOf(a) THEN n ELSE 0
  <2>1. CASE w \in WordsOf(a)
    <3> DEFINE i == CHOOSE i \in DOMAIN a : a[i].word = w
    <3>1. \E j \in DOMAIN a : a[j].word = w
          BY <2>1, HasWord
    <3>2. i \in DOMAIN a /\ a[i].word = w
          BY <3>1
    <3>3. NumberAfter(a, w) = a[1 + i].num
          BY <3>1 DEF NumberAfter
    <3> HIDE DEF i
    <3>4. a \in Seq(Entries)
          BY DEF Says
    <3>5. DOMAIN a = 1..Len(a) /\ Len(a) \in Nat
          BY <3>4, LenProperties
    <3>6. 1 + i = i + 1
          BY <3>2, <3>5
    <3>7. a[i + 1].num = n
          BY <1>1, <3>2, Zenon DEF Followed
    <3> QED BY <2>1, <3>3, <3>6, <3>7
  <2>2. CASE w \notin WordsOf(a)
        BY <2>2, HasWord, Zenon DEF NumberAfter
  <2> QED BY <2>1, <2>2
<1>2. ASSUME NEW w, NEW n, JoinedTo(a, w, n)
      PROVE  NumberJoined(a, w) = IF w \in WordsOf(a) THEN n ELSE 0
  <2>1. CASE w \in WordsOf(a)
    <3>1. \E j \in DOMAIN a : a[j].word = w
          BY <2>1, HasWord
    <3> QED BY <1>2, <2>1, <3>1 DEF NumberJoined, JoinedTo
  <2>2. CASE w \notin WordsOf(a)
        BY <2>2, HasWord, Zenon DEF NumberJoined
  <2> QED BY <2>1, <2>2
<1> QED BY <1>1, <1>2 DEF Says

\* The utility understands what the handle and the options ask for.
LEMMA UnderstoodAsAsked ==
  ASSUME Typed, MaxLevel <= 2
  PROVE  Understood(Argv) = Asked
<1>1. Says(Argv, ArgvWords, handle.level, option["thread_count"], option["sleep_msecs"])
      BY ArgvSays
<1>2. WordsOf(Argv) = ArgvWords
      BY <1>1 DEF Says
<1>3. /\ "-l" \in ArgvWords
      /\ "-t" \in ArgvWords <=> option["thread_count"] # 0
      /\ "--sleep-msecs=" \in ArgvWords <=> option["sleep_msecs"] # 0
      BY DEF ArgvWords
<1>4. /\ NumberAfter(Argv, "-l") = handle.level
      /\ NumberAfter(Argv, "-t") = option["thread_count"]
      /\ NumberJoined(Argv, "--sleep-msecs=") = option["sleep_msecs"]
      BY <1>1, <1>3, TakesNumbers
<1> DEFINE Set(f) == \E i \in DOMAIN Argv : Argv[i].word = FlagWord[f]
<1>5. \A f : Set(f) <=> FlagWord[f] \in ArgvWords
      BY <1>2, HasWord
<1>6. /\ DOMAIN FlagWord = BackupFlags \cup {"except_active_log"}
      /\ FlagWord["remove_archive"] = "-r"
      /\ FlagWord["sa_mode"] = "-S"
      /\ FlagWord["no_check"] = "--no-check"
      /\ FlagWord["compress"] = "-z"
      /\ FlagWord["except_active_log"] = "-e"
      BY DEF FlagWord, BackupFlags
<1>7. /\ "-r" \in ArgvWords <=> handle.flag["remove_archive"]
      /\ "-S" \in ArgvWords <=> handle.flag["sa_mode"]
      /\ "--no-check" \in ArgvWords <=> handle.flag["no_check"]
      /\ "-z" \in ArgvWords <=> handle.flag["compress"]
      /\ "-e" \in ArgvWords <=> option["except_active_log"]
      BY DEF ArgvWords
<1> HIDE DEF Set
<1>8. {f \in DOMAIN FlagWord : Set(f)}
      = {f \in BackupFlags : handle.flag[f]} \cup {f \in {"except_active_log"} : option[f]}
  <2>1. ASSUME NEW f \in BackupFlags PROVE Set(f) <=> handle.flag[f]
        BY <1>5, <1>6, <1>7 DEF BackupFlags
  <2>2. Set("except_active_log") <=> option["except_active_log"]
        BY <1>5, <1>6, <1>7
  <2> QED BY <1>6, <2>1, <2>2
<1> QED BY <1>4, <1>8 DEF Understood, Asked, Set

\* The library starts without a command.
LEMMA CommandInit == Init => CommandInv
BY DEF Init, CommandInv, CommandIsWanted

\* Every step keeps what is known of the handle and the command line.
LEMMA CommandStep ==
  ASSUME MaxLevel <= 2, Typed, ReadInv, CommandInv, [Next]_vars
  PROVE  CommandInv'
<1> USE DEF mgrVars, readVars, cmdVars, envVars, histVars
<1>1. CASE Execute
  <2>1. /\ worker /\ ~worker' /\ UNCHANGED <<wanted, reread>>
        /\ argv' = Argv
        BY <1>1 DEF Execute
  <2>2. Understood(argv') = Asked
        BY <2>1, UnderstoodAsAsked
  <2>3. /\ Asked.level = handle.level
        /\ Asked.flags \cap BackupFlags = {f \in BackupFlags : handle.flag[f]}
    <3>1. "except_active_log" \notin BackupFlags
          BY DEF BackupFlags
    <3> QED BY <3>1 DEF Asked
  <2>4. /\ Understood(argv').level = wanted'.level
        /\ Understood(argv').flags \cap BackupFlags = wanted'.flags \cap BackupFlags
        /\ ~reread' => Understood(argv') = wanted'
        BY <2>1, <2>2, <2>3 DEF CommandInv
  <2>5. Understood(argv)' = Understood(argv')
        BY DEF Understood, NumberAfter, NumberJoined
  <2> QED BY <2>1, <2>4, <2>5 DEF CommandInv, CommandIsWanted
<1>2. ASSUME NEW info \in Infos, Begin(info) PROVE CommandInv'
  <2>1. /\ option = declared /\ option' = option /\ argv' = <<>> /\ wanted' = Wanted(info)
        /\ stage' # "reading"
        /\ handle' = [level |-> info.level,
                      flag |-> [f \in BackupFlags |-> Merged(info, f)]]
        BY <1>2 DEF Begin, ReadInv, OptionsDeclared
  <2>2. ASSUME NEW f \in BackupFlags
        PROVE  handle'.flag[f] <=> info.flag[f] = 1 \/ (info.flag[f] = -1 /\ declared[f])
    <3>1. handle'.flag[f] = Merged(info, f)
          BY <2>1
    <3>2. CASE info.flag[f] = -1
      <4>1. -1 # 1
            OBVIOUS
      <4> QED BY <2>1, <3>1, <3>2, <4>1, Zenon DEF Merged
    <3>3. CASE info.flag[f] # -1
          BY <3>1, <3>3, Zenon DEF Merged
    <3> QED BY <3>2, <3>3
  <2>3. wanted' = Asked'
        BY <2>1, <2>2 DEF Wanted, Asked
  <2>4. /\ Asked'.level = handle'.level
        /\ Asked'.flags \cap BackupFlags = {f \in BackupFlags : handle'.flag[f]}
    <3>1. "except_active_log" \notin BackupFlags
          BY DEF BackupFlags
    <3> QED BY <3>1 DEF Asked
  <2> QED BY <2>1, <2>3, <2>4 DEF CommandInv, CommandIsWanted
<1>3. CASE End \/ Finalize
  <2>1. ~worker' /\ argv' = <<>>
        BY <1>3 DEF End, Finalize, FreeHandle
  <2> QED BY <2>1 DEF CommandInv, CommandIsWanted
<1>4. ASSUME UNCHANGED <<worker, wanted, argv, handle>>,
             ~reread' => ~reread,
             worker /\ ~reread' => UNCHANGED option /\ stage' # "reading"
      PROVE  CommandInv'
  <2>1. Understood(argv)' = Understood(argv)
        BY <1>4 DEF Understood, NumberAfter, NumberJoined
  <2>2. CommandIsWanted'
        BY <1>4, <2>1 DEF CommandInv, CommandIsWanted
  <2>3. ASSUME worker', ~reread' PROVE wanted' = Asked' /\ stage' # "reading"
        BY <1>4, <2>3 DEF CommandInv, Asked
  <2> QED BY <1>4, <2>2, <2>3 DEF CommandInv
<1>5. ASSUME \/ OpenLogFile \/ (\E place \in Places : MakeBackupHome(place))
             \/ EndOfConf \/ Initialized \/ InitializeFails \/ InitializeRefused
             \/ (\E lines \in Files : EditConf(lines)) \/ ProgramSetsErrno
             \/ UNCHANGED vars
      PROVE  CommandInv'
  <2>1. UNCHANGED <<worker, wanted, argv, handle, reread, option>>
        BY <1>5 DEF OpenLogFile, MakeBackupHome, EndOfConf, Initialized, InitializeFails,
                    InitializeRefused, EditConf, ProgramSetsErrno, vars
  <2>2. stage' # "reading" \/ stage' = stage
        BY <1>5 DEF OpenLogFile, MakeBackupHome, EndOfConf, Initialized, InitializeFails,
                    InitializeRefused, EditConf, ProgramSetsErrno, vars
  <2> QED BY <1>4, <2>1, <2>2 DEF CommandInv
<1>6. CASE OpenConf
      BY <1>4, <1>6 DEF OpenConf
<1>7. CASE ReadLine
  <2>1. stage = "reading" /\ UNCHANGED <<worker, wanted, argv, handle, reread>>
        BY <1>7 DEF ReadLine
  <2> QED BY <1>4, <2>1 DEF CommandInv
<1> QED BY <1>1, <1>2, <1>3, <1>5, <1>6, <1>7 DEF Next

\* The utility is asked for exactly what the caller and the file want, whatever
\* the options are and however the file was edited since the initialization. The
\* level and the flags that the handle keeps are so even if the library was
\* initialized a second time between cubrid_backup_begin and execv.
THEOREM CommandIsAsWanted ==
  ASSUME MaxLevel <= 2
  PROVE  Spec => []CommandIsWanted
<1>1. Init => Typed /\ ReadInv /\ CommandInv
      BY TypedInit, ReadInit, CommandInit
<1>2. (Typed /\ ReadInv /\ CommandInv) /\ [Next]_vars => (Typed /\ ReadInv /\ CommandInv)'
      BY TypedStep, ReadStep, CommandStep
<1>3. CommandInv => CommandIsWanted
      BY DEF CommandInv
<1> QED BY <1>1, <1>2, <1>3, PTL DEF Spec
==============================================================================
