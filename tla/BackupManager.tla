---------------------------- MODULE BackupManager ----------------------------
(***************************************************************************)
(* The backup manager and the options of a backup: how initialization      *)
(* opens the log, makes the backup home and reads cubrid_backup.conf, how  *)
(* cubrid_backup_begin merges the file with the options of the call, and   *)
(* the command line that the worker's child gives to cubrid backupdb.      *)
(* An administrator edits the file at any time.                            *)
(*                                                                         *)
(* A line of the file is what the patterns of read_option take it for: a   *)
(* header, a pair, or neither (empty, a comment, anything else). A file    *)
(* that is missing reads as an empty one.                                  *)
(***************************************************************************)
EXTENDS Integers, Sequences, SequencesExt

CONSTANTS
  Number,        \* the texts made of digits, and the number each one stands for
  IntMax,        \* INT_MAX
  LongMax,       \* LONG_MAX
  Files,         \* contents an administrator may give cubrid_backup.conf
  Places,        \* directories in which the backup home may be made
  Infos,         \* CUBRID_BACKUP_INFOs a program may pass
  MaxLevel,      \* BACKUP_SMALL_INCREMENT_LEVEL
  ArgvSize       \* entries of argv in execute_cubrid_backupdb

BackupFlags == {"remove_archive", "sa_mode", "no_check", "compress"}
IntKeys     == {"thread_count", "sleep_msecs"}
BackupKeys  == BackupFlags \cup {"except_active_log"} \cup IntKeys
RestoreKeys == {"partial_recovery", "use_database_location_path"}
Keys        == BackupKeys \cup RestoreKeys
Sections    == {"backup", "restore"}

Other             == [kind |-> "other"]
Header(s, lower)  == [kind |-> "header", section |-> s, lower |-> lower]
Pair(key, text)   == [kind |-> "pair", key |-> key, text |-> text]
Lines == {Other}
         \cup [kind : {"header"}, section : Sections, lower : BOOLEAN]
         \cup [kind : {"pair"}, key : STRING, text : STRING]

ASSUME ManagerAssumption ==
  /\ \A text \in DOMAIN Number : Number[text] \in Nat
  /\ IntMax \in Nat /\ LongMax \in Nat /\ IntMax <= LongMax
  /\ MaxLevel \in Nat /\ ArgvSize \in Nat
  /\ <<>> \in Files
  /\ Files \subseteq Seq(Lines)
  /\ \A info \in Infos :
       info.level \in Int /\ \A f \in BackupFlags : info.flag[f] \in Int

VARIABLES
  \* how far initialization got, or what the API is doing: "down", "log", "home",
  \* "reading", "conf", "ready", "backup"; or "torn": NOT_READY, all else as it was
  stage,
  log_fp, backup_home,   \* the BACKUP_MANAGER (log_fp: not NULL)
  option,                \* its default_backup_option, default_restore_option
  at, section,           \* read_option: lines read so far, read_state
  made,                  \* places where the backup home exists
  erange,                \* errno is ERANGE
  conf,                  \* the lines of cubrid_backup.conf
  handle,                \* options in the BACKUP_HANDLE
  worker,                \* a worker has still to make a command line
  argv,                  \* the command line of the latest backup, once it runs
  \* history: what the file said when it was read, how it was judged, what the
  \* program and the file together ask of the latest backup, and whether the file
  \* was read again before its command line was made
  declared, verdict, wanted, reread

mgrVars  == <<log_fp, backup_home, option>>
readVars == <<at, section>>
cmdVars  == <<handle, worker, argv, wanted, reread>>
envVars  == <<made, erange, conf>>
histVars == <<declared, verdict>>
vars == <<stage, mgrVars, readVars, cmdVars, envVars, histVars>>

None == "none"

\* init_default_backup_option, init_default_restore_option
Defaults == [k \in Keys |-> IF k \in IntKeys THEN 0 ELSE FALSE]

----------------------------------------------------------------------------
(* What read_option makes of one line *)

\* set_bool_value
TrueTexts  == {"true", "1"}
FalseTexts == {"false", "0"}
IsBool(text) == text \in TrueTexts \cup FalseTexts

\* set_int_value: strtol sets errno when the number does not fit, and never
\* clears it
OutOfRange(text) == text \in DOMAIN Number /\ Number[text] > LongMax
IsInt(text) ==
  /\ text \in DOMAIN Number
  /\ ~erange
  /\ Number[text] <= IntMax

\* what one of them stores
Value(key, text) == IF key \in IntKeys THEN Number[text] ELSE text \in TrueTexts

SectionKeys(in) ==
  CASE in = "backup"  -> BackupKeys
    [] in = "restore" -> RestoreKeys
    [] OTHER          -> {}

\* set_backup_option, set_restore_option
Accepted(line) ==
  /\ line.key \in SectionKeys(section)
  /\ IF line.key \in IntKeys THEN IsInt(line.text) ELSE IsBool(line.text)

ErangeAfter(line) ==
  \/ erange
  \/ /\ line.key \in SectionKeys(section) \cap IntKeys
     /\ OutOfRange(line.text)

\* a header counts when its name starts in lower case
IsHeader(line) == line.kind = "header" /\ line.lower

----------------------------------------------------------------------------
(* What the first n lines of a file mean, told without reading them in turn *)

\* line i is in the section that the header in line h opens
Under(c, h, i) ==
  /\ IsHeader(c[h])
  /\ \A j \in (h + 1)..(i - 1) : ~IsHeader(c[j])

Legal(key, text) ==
  IF key \in IntKeys
  THEN text \in DOMAIN Number /\ Number[text] <= IntMax
  ELSE IsBool(text)

PairIsValid(c, i) ==
  \E h \in 1..(i - 1) :
    /\ Under(c, h, i)
    /\ c[i].key \in SectionKeys(c[h].section)
    /\ Legal(c[i].key, c[i].text)

Valid(c, n) == \A i \in 1..n : c[i].kind = "pair" => PairIsValid(c, i)

\* the last line about a key decides
Declares(c, n, key) ==
  LET about == {i \in 1..n : c[i].kind = "pair" /\ c[i].key = key}
  IN  IF about = {} THEN Defaults[key] ELSE Value(key, c[Max(about)].text)

Declared(c, n) == [key \in Keys |-> Declares(c, n, key)]

----------------------------------------------------------------------------
(* cubrid_backup_initialize, cubrid_backup_finalize *)

\* logging an error may overwrite errno
MayLoseErange == erange' \in {erange, FALSE}

\* a log that is open already is forgotten
OpenLogFile ==
  /\ stage \in {"down", "torn"}
  /\ stage' = "log"
  /\ log_fp' = TRUE
  /\ UNCHANGED <<backup_home, option, readVars, cmdVars, envVars, histVars>>

MkdirErrno_Ignored(place) == UNCHANGED erange

\* mkdir of a home that is there already sets errno to EEXIST
MkdirErrno(place) ==
  IF place \in made THEN erange' = FALSE ELSE UNCHANGED erange

\* set_cubrid_home, make_backup_home: the first candidate that is usable;
\* candidates that are not may have left their errno
MakeBackupHome(place) ==
  /\ stage = "log"
  /\ stage' = "home"
  /\ MkdirErrno(place)
  /\ made' = made \cup {place}
  /\ backup_home' = place
  /\ verdict' = [ok |-> TRUE, valid |-> TRUE, fresh |-> place \notin made]
  /\ UNCHANGED <<log_fp, option, readVars, cmdVars, conf, declared>>

\* close_log_file of stop_backup_manager
StopManager_LeavesLog == backup_home' = None /\ UNCHANGED log_fp

\* the locals of read_option are gone
LeaveReadOption == at' = 0 /\ section' = None

\* stop_backup_manager
StopManager == backup_home' = None /\ log_fp' = FALSE

FirstOption_Kept == option

\* the options read_conf_file starts from
FirstOption == Defaults

\* read_conf_file; a file that cannot be opened has no lines
OpenConf ==
  /\ stage = "home"
  /\ stage' = "reading"
  /\ option' = FirstOption
  /\ section' = None
  /\ at' = 0
  /\ reread' = (reread \/ worker)
  /\ UNCHANGED <<log_fp, backup_home, handle, worker, argv, wanted, envVars,
                 histVars>>

\* how the file was judged, beside what it is
Judged(ok) == [ok |-> ok, valid |-> Valid(conf, Len(conf)), fresh |-> verdict.fresh]

\* read_option: a line that is no pair, a pair, a pair that ends it all
ReadHeaderOrOther(line) ==
  /\ line.kind # "pair"
  /\ at' = at + 1
  /\ section' = IF IsHeader(line) THEN line.section ELSE section
  /\ UNCHANGED <<stage, mgrVars, erange, verdict>>

ReadPair(line) ==
  /\ line.kind = "pair"
  /\ Accepted(line)
  /\ at' = at + 1
  /\ option' = [option EXCEPT ![line.key] = Value(line.key, line.text)]
  /\ UNCHANGED <<stage, section, log_fp, backup_home, erange, verdict>>

\* what the lines before it have set stays set
RefusePair(line) ==
  /\ line.kind = "pair"
  /\ ~Accepted(line)
  /\ stage' = "down"
  /\ erange' \in {ErangeAfter(line), FALSE}
  /\ verdict' = Judged(FALSE)
  /\ StopManager
  /\ LeaveReadOption
  /\ UNCHANGED option

ReadLine ==
  /\ stage = "reading"
  /\ at < Len(conf)
  /\ \/ ReadHeaderOrOther(conf[at + 1])
     \/ ReadPair(conf[at + 1])
     \/ RefusePair(conf[at + 1])
  /\ UNCHANGED <<cmdVars, made, conf, declared>>

EndOfConf ==
  /\ stage = "reading"
  /\ at = Len(conf)
  /\ stage' = "conf"
  /\ declared' = Declared(conf, Len(conf))
  /\ verdict' = Judged(TRUE)
  /\ LeaveReadOption
  /\ UNCHANGED <<mgrVars, cmdVars, envVars>>

\* set_io_size and start_handle_manager succeed
Initialized ==
  /\ stage = "conf"
  /\ stage' = "ready"
  /\ UNCHANGED <<mgrVars, readVars, cmdVars, envVars, histVars>>

\* another step of the initialization fails, compile_regex of read_option among
\* them; its error path stops the manager
InitializeFails ==
  /\ stage \in {"down", "torn", "log", "conf"} \/ (stage = "reading" /\ at = 0)
  /\ stage' = "down"
  /\ StopManager
  /\ MayLoseErange
  /\ declared' = Defaults
  /\ UNCHANGED <<option, readVars, cmdVars, made, conf, verdict>>

\* cubrid_backup_initialize of a library that is up: the gate refuses it, and the
\* error path runs finalize_backup_api but not stop_backup_manager
InitializeRefused ==
  /\ stage \in {"ready", "backup"}
  /\ stage' = "torn"
  /\ MayLoseErange
  /\ UNCHANGED <<mgrVars, readVars, cmdVars, made, conf, histVars>>

\* initialize_backup_handle, as far as the options go
NoOptions == [level |-> 0, flag |-> [f \in BackupFlags |-> FALSE]]
Nothing   == [level |-> 0, flags |-> {}, thread_count |-> 0, sleep_msecs |-> 0]

FreeHandle ==
  /\ handle' = NoOptions
  /\ worker' = FALSE
  /\ argv' = <<>>
  /\ wanted' = Nothing
  /\ reread' = FALSE

\* the worker is joined first, so its utility runs now or never
Finalize ==
  /\ stage \in {"ready", "backup"}
  /\ stage' = "down"
  /\ StopManager
  /\ FreeHandle
  /\ MayLoseErange
  /\ declared' = Defaults
  /\ UNCHANGED <<option, readVars, made, conf, verdict>>

----------------------------------------------------------------------------
(* cubrid_backup_begin and the command line *)

InfoAccepted_AnyLevel(info) == \A f \in BackupFlags : info.flag[f] \in -1..1

\* check_backup_info
InfoAccepted(info) ==
  /\ info.level \in 0..MaxLevel
  /\ \A f \in BackupFlags : info.flag[f] \in -1..1

Merged_FileWins(info, f) == option[f] \/ info.flag[f] = 1

\* set_backup_info: -1 leaves the flag to the file
Merged(info, f) == IF info.flag[f] = -1 THEN option[f] ELSE info.flag[f] = 1

\* what the caller, and the file it initialized with, ask for
Wanted(info) ==
  [level |-> info.level,
   flags |-> {f \in BackupFlags :
                \/ info.flag[f] = 1
                \/ info.flag[f] = -1 /\ declared[f]}
             \cup {f \in {"except_active_log"} : declared[f]},
   thread_count |-> declared["thread_count"],
   sleep_msecs |-> declared["sleep_msecs"]]

\* a worker left behind by a refused initialization is alone here; BackupService
\* has the second backup beside it
Begin(info) ==
  /\ stage = "ready"
  /\ ~worker
  /\ InfoAccepted(info)
  /\ stage' = "backup"
  /\ handle' = [level |-> info.level,
                flag |-> [f \in BackupFlags |-> Merged(info, f)]]
  /\ worker' = TRUE
  /\ argv' = <<>>
  /\ wanted' = Wanted(info)
  /\ reread' = FALSE
  /\ UNCHANGED <<mgrVars, readVars, envVars, histVars>>

\* an entry of argv: a word, a number in digits, or both run together
Word(w)      == [word |-> w, num |-> 0]
Digits(n)    == [word |-> "", num |-> n]
Joined(w, n) == [word |-> w, num |-> n]

Given(condition, words) == IF condition THEN words ELSE <<>>

Level(l) == <<Word("-l")>> \o Given(l \in 0..2, <<Digits(l)>>)

SleepMsecs_Split(n) == <<Word("--sleep-msecs="), Digits(n)>>

SleepMsecs(n) == <<Joined("--sleep-msecs=", n)>>

\* execute_cubrid_backupdb, without the terminating null pointer
Argv ==
  <<Word("cubrid"), Word("backupdb"), Word("-D"), Word("fifo_path")>>
  \o Given(handle.flag["remove_archive"], <<Word("-r")>>)
  \o Level(handle.level)
  \o Given(handle.flag["sa_mode"], <<Word("-S")>>)
  \o Given(handle.flag["no_check"], <<Word("--no-check")>>)
  \o Given(option["thread_count"] # 0,
           <<Word("-t"), Digits(option["thread_count"])>>)
  \o Given(handle.flag["compress"], <<Word("-z")>>)
  \o Given(option["except_active_log"], <<Word("-e")>>)
  \o Given(option["sleep_msecs"] # 0, SleepMsecs(option["sleep_msecs"]))
  \o <<Word("db_name")>>

\* the worker forks and its child calls execv, whatever the API is doing by then
Execute ==
  /\ worker
  /\ worker' = FALSE
  /\ argv' = Argv
  /\ UNCHANGED <<stage, mgrVars, readVars, handle, wanted, reread, envVars,
                 histVars>>

\* cubrid_backup_end
End ==
  /\ stage = "backup"
  /\ stage' = "ready"
  /\ FreeHandle
  /\ UNCHANGED <<mgrVars, readVars, envVars, histVars>>

\* what cubrid backupdb makes of its command line
FlagWord ==
  [remove_archive |-> "-r", sa_mode |-> "-S", no_check |-> "--no-check",
   compress |-> "-z", except_active_log |-> "-e"]
NumberAfter(a, w) ==
  IF \E i \in DOMAIN a : a[i].word = w
  THEN a[1 + CHOOSE i \in DOMAIN a : a[i].word = w].num
  ELSE 0
NumberJoined(a, w) ==
  IF \E i \in DOMAIN a : a[i].word = w
  THEN a[CHOOSE i \in DOMAIN a : a[i].word = w].num
  ELSE 0
Understood(a) ==
  [level |-> NumberAfter(a, "-l"),
   flags |-> {f \in DOMAIN FlagWord :
                \E i \in DOMAIN a : a[i].word = FlagWord[f]},
   thread_count |-> NumberAfter(a, "-t"),
   sleep_msecs |-> NumberJoined(a, "--sleep-msecs=")]

----------------------------------------------------------------------------
(* The administrator, and what the program does with errno between calls *)

\* the first fgets takes the whole of a small file into the stream's buffer, so
\* an edit while the lines are read is one that comes after them
EditConf(lines) ==
  /\ stage # "reading"
  /\ conf' = lines
  /\ UNCHANGED <<stage, mgrVars, readVars, cmdVars, made, erange, histVars>>

\* errno matters to nothing but the next initialization
ProgramSetsErrno ==
  /\ stage \in {"down", "torn"}
  /\ erange' \in BOOLEAN
  /\ UNCHANGED <<stage, mgrVars, readVars, cmdVars, made, conf, histVars>>

\* static storage; the places may hold a backup home of an earlier program
Init ==
  /\ stage = "down"
  /\ log_fp = FALSE
  /\ backup_home = None
  /\ option = Defaults
  /\ at = 0 /\ section = None
  /\ made \in SUBSET Places
  /\ erange = FALSE
  /\ conf = <<>>
  /\ handle = NoOptions
  /\ worker = FALSE
  /\ argv = <<>>
  /\ wanted = Nothing
  /\ reread = FALSE
  /\ declared = Defaults
  /\ verdict = [ok |-> TRUE, valid |-> TRUE, fresh |-> FALSE]

Next ==
  \/ OpenLogFile
  \/ \E place \in Places : MakeBackupHome(place)
  \/ OpenConf
  \/ ReadLine
  \/ EndOfConf
  \/ Initialized
  \/ InitializeFails
  \/ InitializeRefused
  \/ Finalize
  \/ \E info \in Infos : Begin(info)
  \/ Execute
  \/ End
  \/ \E lines \in Files : EditConf(lines)
  \/ ProgramSetsErrno

Spec == Init /\ [][Next]_vars

----------------------------------------------------------------------------
(* Properties *)

OptionsTyped(o) ==
  /\ DOMAIN o = Keys
  /\ \A k \in IntKeys : o[k] \in 0..IntMax
  /\ \A k \in Keys \ IntKeys : o[k] \in BOOLEAN

Stages ==
  {"down", "log", "home", "reading", "conf", "ready", "backup", "torn"}

\* Every variable holds a value of its C type; a level is one the utility has.
TypeOK ==
  /\ stage \in Stages
  /\ log_fp \in BOOLEAN
  /\ backup_home \in Places \cup {None}
  /\ OptionsTyped(option)
  /\ at \in 0..Len(conf) /\ section \in Sections \cup {None}
  /\ made \subseteq Places
  /\ erange \in BOOLEAN
  /\ conf \in Files
  /\ handle \in [level : 0..MaxLevel, flag : [BackupFlags -> BOOLEAN]]
  /\ worker \in BOOLEAN /\ reread \in BOOLEAN

\* Once initialized, the library has the options that the file declared then:
\* nothing of an earlier or a refused file is left in them, and an initialization
\* that is refused because the library is up leaves them alone.
OptionsDeclared ==
  stage \in {"conf", "ready", "backup", "torn"} => option = declared

\* A file is accepted only if it is valid, and a valid one is refused only by
\* the initialization that made the backup home: there a stale ERANGE of the
\* program, or of an earlier refusal, survives until set_int_value tests errno.
VerdictRight ==
  /\ verdict.ok => verdict.valid
  /\ verdict.valid /\ ~verdict.ok => verdict.fresh

\* Whichever of its own steps made an initialization fail, also one that came after
\* a refused one, the log is closed again and no backup home is set. The one that
\* is refused because the library is up takes the API down and leaves both
\* (call_cubrid_backup_initialize_x_2 of backup_tc02.c). A backup has both.
DownIsClean ==
  /\ stage = "down" => ~log_fp /\ backup_home = None
  /\ stage \in {"ready", "backup", "torn"} => log_fp /\ backup_home \in made

\* argv has room for the command line and the null pointer that ends it.
ArgvFits == Len(argv) + 1 <= ArgvSize

\* The utility is asked for exactly what the caller and the file want, a flag of
\* the call going before one of the file (conf_test.sh, backup_tc04.c). The child
\* takes three options from the manager and not from the handle, so these are
\* another file's when the library was initialized again before it called execv.
CommandIsWanted ==
  argv # <<>> =>
    /\ Understood(argv).level = wanted.level
    /\ Understood(argv).flags \cap BackupFlags = wanted.flags \cap BackupFlags
    /\ ~reread => Understood(argv) = wanted
=============================================================================
