---------------------------- MODULE EventReport ----------------------------
(***************************************************************************)
(* Where the text of a diagnostic goes (src/Msgexception.cpp).  The threads *)
(* of a process share one latch (is a dialog ruled out?), one configuration *)
(* that the first diagnostic reads from disk, the path of one log file and  *)
(* one static buffer a log entry is put together in.  One recursive lock    *)
(* guards the configuration and the log, but the latch, and the tests made  *)
(* before the lock is asked for, are read and written without it: each of   *)
(* those reads and writes is a step of its own here.                        *)
(*                                                                         *)
(* A thread runs one call at a time.  stack[t] holds the place it has       *)
(* reached and, below it, the places its callers resume at.                 *)
(***************************************************************************)
EXTENDS Naturals, Sequences, FiniteSets, NoValue

CONSTANTS
    Threads, Main,   \* the threads; Main is the one the host starts on
    Files,           \* the configuration files a search or a caller may name
    Contents,        \* what such a file may hold: subset of ContentNames
    ReportCalls,           \* the calls the threads make: subset of CallNames
    MaxCalls,        \* bound: calls of one thread
    Env,             \* P2PMSG_NO_UI is set (0 or 1)
    Viewable, Writable,  \* a dialog can be seen; stderr or a console is there
    Settled          \* which hosts: TRUE resolves the latch before any other thread runs

\* The forms of a configuration file that differ in what they do: no file, one
\* the reader refuses (UTF-16), and lists of settings.
ContentNames == {"absent", "foreign", "empty", "text", "textlog", "log", "typo"}

\* The settings a file holds, in order: src/Msgexception.cpp, "Key: Value".
Lines(content) ==
    CASE content = "text"    -> <<"dialog off">>
      [] content = "textlog" -> <<"dialog off", "log">>
      [] content = "log"     -> <<"dialog on", "log">>
      [] content = "typo"    -> <<"dialog maybe", "other">>
      [] OTHER               -> << >>

CallNames == {"display", "uses", "force text", "force dialog", "search",
              "load", "set log", "no log", "ask", "sink"}

ASSUME ReportAssumption ==
    /\ Main \in Threads /\ None \notin Threads \cup Files
    /\ None \notin CallNames /\ None \notin {0, 1}
    /\ Contents \subseteq ContentNames /\ ReportCalls \subseteq CallNames
    /\ MaxCalls \in Nat /\ Env \in {0, 1}
    /\ {Viewable, Writable} \subseteq BOOLEAN /\ Settled \subseteq BOOLEAN

Unset == 2    \* -1: the latch has not been resolved

VARIABLES
    settled,    \* the host is one that resolves the latch first
    reportDisk,       \* what every configuration file holds, None: cannot be opened
    latch,      \* s_nP2PeventTextOnly
    loaded,     \* s_bP2PcfgLoaded
    textOnly,   \* s_bP2PcfgTextOnly
    cfgPath,    \* s_szP2PcfgPath
    logPath,    \* s_szP2PlogPath
    note,       \* s_szP2PcfgNote, as the set of its clauses
    noted,      \* s_bP2PcfgNoted
    textSink,   \* s_pfnP2PeventTextSink is set
    reportOwner,      \* the lock: the thread inside and how often it entered
    buffer,     \* s_wszEntry: the event whose entry stands in it
    stack, ret, \* per thread: places, and the answer of the last call
    reading,    \* per thread: the file being read and its lines still to apply
    reportCall, left, \* per thread: the call it is in, and how many it has left
    shown,      \* history: <<event, place>>
    forced,     \* history: what the host last asked ForceTextOutput for
    invited,    \* history: the host has asked it for dialogs
    named       \* history: what SetLogFile last named, None after a load

config == <<settled, reportDisk, loaded, textOnly, cfgPath, logPath, note>>
local  == <<stack, ret, reading, reportCall, left>>
past   == <<shown, forced, invited, named>>
reportVars   == <<config, latch, noted, textSink, reportOwner, buffer, local, past>>

Event(t) == <<t, left[t]>>
Default  == "errorLog.txt"
LogNames == {Default, "LogFile"}

\* A relative log name is taken beside the file that names it.
Resolve(dir, name) == <<dir, name>>
\* What SetLogFile is given: a path of its own.
FromCode == <<None, "LogFile">>
Paths == {None, FromCode} \cup (Files \X LogNames)

ReportTypeOK ==
    /\ reportDisk \in [Files -> Contents]
    /\ latch \in {0, 1, Unset} /\ loaded \in BOOLEAN /\ textOnly \in BOOLEAN
    /\ cfgPath \in Files \cup {None} /\ logPath \in Paths
    /\ note \subseteq {"line", "unopened", "foreign"}
    /\ noted \in BOOLEAN /\ textSink \in BOOLEAN
    /\ reportOwner.depth \in 0 .. 3 /\ (reportOwner.depth = 0) = (reportOwner.by = None)
    /\ ret \in [Threads -> BOOLEAN] /\ left \in [Threads -> 0 .. MaxCalls]
    /\ forced \in {0, 1, None} /\ invited \in BOOLEAN /\ named \in Paths

-----------------------------------------------------------------------------
(* Control *)

At(t, place) == stack[t] # << >> /\ Head(stack[t]) = place
Goto(t, place) == stack' = [stack EXCEPT ![t] = <<place>> \o Tail(@)]
\* Enter the place called, and resume at the place after.
CallTo(t, place, after) ==
    stack' = [stack EXCEPT ![t] = <<place, after>> \o Tail(@)]
ReportReturn(t) == stack' = [stack EXCEPT ![t] = Tail(@)]
Answer(t, yes) == ret' = [ret EXCEPT ![t] = yes]

LockFree(t) == reportOwner.by \in {None, t}
Entered(t) == [by |-> t, depth |-> reportOwner.depth + 1]
Left == IF reportOwner.depth = 1 THEN [by |-> None, depth |-> 0]
                           ELSE [reportOwner EXCEPT !.depth = @ - 1]

ReportInit ==
    /\ settled \in Settled
    /\ reportDisk \in [Files -> Contents]
    /\ latch = Unset /\ loaded = FALSE /\ textOnly = FALSE
    /\ cfgPath = None /\ logPath = None /\ note = {} /\ noted = FALSE
    /\ textSink = FALSE /\ reportOwner = [by |-> None, depth |-> 0]
    /\ buffer = None
    /\ stack = [t \in Threads |-> << >>] /\ ret = [t \in Threads |-> FALSE]
    /\ reading = [t \in Threads |-> [file |-> None, lines |-> << >>, log |-> FALSE]]
    /\ reportCall = [t \in Threads |-> None] /\ left = [t \in Threads |-> MaxCalls]
    /\ shown = {} /\ forced = None /\ invited = FALSE
    /\ named = None

\* Where each call starts.
ReportFirst(c) ==
    CASE c \in {"display", "uses", "force text", "force dialog"} -> <<"latch", c>>
      [] c \in {"search", "load"}      -> <<"enter">>
      [] c \in {"set log", "no log"}   -> <<"hold">>
      [] c = "ask"                     -> <<"ensure">>
      [] c = "sink"                    -> <<"sink">>

\* A settled host answers the question of the latch before a thread runs.
ReportIdle(t) == stack[t] = << >>
Ready == left[Main] < MaxCalls /\ (left[Main] = MaxCalls - 1 => ReportIdle(Main))
MayCall(t, c) ==
    settled /\ ~Ready =>
        t = Main /\ ReportIdle(Main) /\ c \in {"uses", "force text", "force dialog"}

Start(t) ==
    /\ ReportIdle(t) /\ left[t] > 0
    /\ \E c \in ReportCalls, f \in Files :
          /\ MayCall(t, c) /\ (c # "load" => f = CHOOSE g \in Files : TRUE)
          /\ reportCall' = [reportCall EXCEPT ![t] = c]
          /\ stack' = [stack EXCEPT ![t] = ReportFirst(c)]
          /\ reading' = [reading EXCEPT ![t] =
                [file |-> IF c = "load" THEN f ELSE None, lines |-> << >>, log |-> FALSE]]
    /\ left' = [left EXCEPT ![t] = @ - 1]
    /\ UNCHANGED <<config, latch, noted, textSink, reportOwner, buffer, ret, past>>

-----------------------------------------------------------------------------
(* P2PeventTextOnly: the latch, read and seeded without the lock *)

ReadLatch(t) ==
    /\ At(t, "latch")
    /\ Goto(t, IF latch = Unset THEN "seed" ELSE "answer")
    /\ UNCHANGED <<config, latch, noted, textSink, reportOwner, buffer,
                   ret, reading, reportCall, left, past>>

Seed(t) ==
    /\ At(t, "seed") /\ latch' = Env
    /\ CallTo(t, "ensure", "heard")
    /\ UNCHANGED <<config, noted, textSink, reportOwner, buffer,
                   ret, reading, reportCall, left, past>>

Heard(t) ==
    /\ At(t, "heard") /\ Goto(t, "answer")
    /\ latch' = IF textOnly THEN 1 ELSE latch
    /\ UNCHANGED <<config, noted, textSink, reportOwner, buffer,
                   ret, reading, reportCall, left, past>>

AnswerLatch(t) ==
    /\ At(t, "answer") /\ Answer(t, latch = 1) /\ ReportReturn(t)
    /\ UNCHANGED <<config, latch, noted, textSink, reportOwner, buffer,
                   reading, reportCall, left, past>>

\* ForceTextOutput, once the question has been answered.
ForceTextOutput(t) ==
    /\ At(t, "force text") \/ At(t, "force dialog")
    /\ latch' = IF reportCall[t] = "force text" THEN 1 ELSE 0
    /\ forced' = latch' /\ invited' = (invited \/ latch' = 0) /\ ReportReturn(t)
    /\ UNCHANGED <<config, noted, textSink, reportOwner, buffer,
                   ret, reading, reportCall, left, shown, named>>

-----------------------------------------------------------------------------
(* P2PcfgEnsure and LoadConfigFile *)

\* Mutant: the search is not remembered.
EnsureAgain(t) ==
    /\ At(t, "ensure") /\ Goto(t, "enter")
    /\ UNCHANGED <<config, latch, noted, textSink, reportOwner, buffer,
                   ret, reading, reportCall, left, past>>

\* The flag is tested without the lock, and not again inside it.
Ensure(t) ==
    /\ At(t, "ensure")
    /\ IF loaded THEN ReportReturn(t) ELSE Goto(t, "enter")
    /\ UNCHANGED <<config, latch, noted, textSink, reportOwner, buffer,
                   ret, reading, reportCall, left, past>>

\* The files a search tries, in order, until one exists.
Existing == {f \in Files : reportDisk[f] # "absent"}
Found(asked) ==
    IF asked # None THEN IF asked \in Existing THEN asked ELSE None
    ELSE IF Existing = {} THEN None ELSE CHOOSE f \in Existing : TRUE

\* What is forgotten before a file is looked for.
Forgotten == /\ loaded' = TRUE /\ textOnly' = FALSE /\ logPath' = None

\* P2PcfgNote: complaints add up, none is taken back.
P2PcfgNote(clauses) == note' = note \cup clauses

LoadConfigFile(t) ==
    /\ At(t, "enter") /\ LockFree(t) /\ reportOwner' = Entered(t)
    /\ Forgotten
    /\ named' = IF reportCall[t] \in {"load", "search"} THEN None ELSE named
    /\ LET asked == reading[t].file
           f     == Found(asked)
       IN  /\ cfgPath' = IF f # None /\ reportDisk[f] # "foreign" THEN f ELSE None
           /\ P2PcfgNote(IF f = None /\ asked # None THEN {"unopened"}
                        ELSE IF f # None /\ reportDisk[f] = "foreign"
                        THEN {"foreign"} ELSE {})
           /\ reading' = [reading EXCEPT ![t] =
                 [file |-> f, log |-> FALSE,
                  lines |-> IF f = None THEN << >> ELSE Lines(reportDisk[f])]]
    /\ Goto(t, "lines")
    /\ UNCHANGED <<settled, reportDisk, latch, noted, textSink, buffer,
                   ret, reportCall, left, shown, forced, invited>>

\* Mutant: the last setting of the file decides.
ApplyLineLast(t) ==
    /\ At(t, "lines") /\ reading[t].lines # << >>
    /\ LET line == Head(reading[t].lines) IN
          /\ textOnly' = (line = "dialog off")
          /\ logPath' = IF line = "log" THEN Resolve(reading[t].file, "LogFile")
                                        ELSE logPath
          /\ P2PcfgNote(IF line \in {"dialog maybe", "other"} THEN {"line"} ELSE {})
          /\ reading' = [reading EXCEPT ![t].lines = Tail(@),
                                        ![t].log = @ \/ line = "log"]
    /\ UNCHANGED <<settled, reportDisk, loaded, cfgPath, latch, noted, textSink, reportOwner, buffer,
                   stack, ret, reportCall, left, past>>

\* P2PcfgApplyLine: a dialog can only be ruled out, an unclear value is ignored.
ApplyLine(t) ==
    /\ At(t, "lines") /\ reading[t].lines # << >>
    /\ LET line == Head(reading[t].lines) IN
          /\ textOnly' = (textOnly \/ line = "dialog off")
          /\ logPath' = IF line = "log" THEN Resolve(reading[t].file, "LogFile")
                                        ELSE logPath
          /\ P2PcfgNote(IF line \in {"dialog maybe", "other"} THEN {"line"} ELSE {})
          /\ reading' = [reading EXCEPT ![t].lines = Tail(@),
                                        ![t].log = @ \/ line = "log"]
    /\ UNCHANGED <<settled, reportDisk, loaded, cfgPath, latch, noted, textSink, reportOwner, buffer,
                   stack, ret, reportCall, left, past>>

\* Text with no log named goes to errorLog.txt beside the file; and the latch
\* follows the file towards text, never away from it.
Loaded(t) ==
    /\ At(t, "lines") /\ reading[t].lines = << >>
    /\ logPath' = IF /\ cfgPath # None /\ textOnly
                     /\ ~reading[t].log /\ logPath = None
                  THEN Resolve(cfgPath, Default) ELSE logPath
    /\ latch' = IF textOnly THEN 1 ELSE latch
    /\ reportOwner' = Left /\ ReportReturn(t)
    /\ reading' = [reading EXCEPT ![t] = [file |-> None, lines |-> << >>, log |-> FALSE]]
    /\ UNCHANGED <<settled, reportDisk, loaded, textOnly, cfgPath, note, noted, textSink, buffer,
                   ret, reportCall, left, past>>

-----------------------------------------------------------------------------
(* SetLogFile, SetTextSink *)

\* The load is done first, under the lock, or it would undo the call.
HoldForLog(t) ==
    /\ At(t, "hold") /\ LockFree(t) /\ reportOwner' = Entered(t)
    /\ CallTo(t, "ensure", "set")
    /\ UNCHANGED <<config, latch, noted, textSink, buffer,
                   ret, reading, reportCall, left, past>>

SetLogFile(t) ==
    /\ At(t, "set") /\ reportOwner' = Left /\ ReportReturn(t)
    /\ logPath' = IF reportCall[t] = "set log" THEN FromCode ELSE None
    /\ named' = logPath'
    /\ UNCHANGED <<settled, reportDisk, loaded, textOnly, cfgPath, note, latch, noted, textSink,
                   buffer, ret, reading, reportCall, left, shown, forced, invited>>

SetTextSink(t) ==
    /\ At(t, "sink") /\ textSink' = ~textSink /\ ReportReturn(t)
    /\ UNCHANGED <<config, latch, noted, reportOwner, buffer,
                   ret, reading, reportCall, left, past>>

\* UsesTextOutput returns the answer.
Uses(t) ==
    /\ At(t, "uses") /\ ReportReturn(t)
    /\ UNCHANGED <<config, latch, noted, textSink, reportOwner, buffer,
                   ret, reading, reportCall, left, past>>

-----------------------------------------------------------------------------
(* Display: where the text goes *)

\* TextOutputPolicy: can a dialog be seen comes before is there a stream.
DialogViewable == Viewable
TextOutputPolicy(ruledOut) == ruledOut \/ ~DialogViewable \/ Writable

Shown(t, place) == shown' = shown \cup {<<Event(t), place>>}

Display(t) ==
    /\ At(t, "display")
    /\ IF ~TextOutputPolicy(ret[t]) THEN Shown(t, "dialog") /\ ReportReturn(t)
       ELSE IF textSink THEN Shown(t, "sink") /\ ReportReturn(t)
       ELSE CallTo(t, "ensure", "log") /\ UNCHANGED shown
    /\ UNCHANGED <<config, latch, noted, textSink, reportOwner, buffer,
                   ret, reading, reportCall, left, forced, invited, named>>

\* P2PeventWriteLog.  Is a log named: asked without the lock.
LogNamed(t) ==
    /\ At(t, "log") /\ Goto(t, IF logPath = None THEN "fallback" ELSE "assemble")
    /\ UNCHANGED <<config, latch, noted, textSink, reportOwner, buffer,
                   ret, reading, reportCall, left, past>>

\* Mutant: the entry is put together before the lock is taken.
AssembleOutside(t) ==
    /\ At(t, "assemble")
    /\ reportOwner' = IF LockFree(t) THEN Entered(t) ELSE [reportOwner EXCEPT !.depth = @ + 1]
    /\ buffer' = [of |-> Event(t), note |-> IF noted THEN {} ELSE note]
    /\ noted' = TRUE /\ Goto(t, "write")
    /\ UNCHANGED <<config, latch, textSink, ret, reading, reportCall, left, past>>

\* The entry is put together in the static buffer, the note first and once.
Assemble(t) ==
    /\ At(t, "assemble") /\ LockFree(t) /\ reportOwner' = Entered(t)
    /\ buffer' = [of |-> Event(t), note |-> IF noted THEN {} ELSE note]
    /\ noted' = TRUE /\ Goto(t, "write")
    /\ UNCHANGED <<config, latch, textSink, ret, reading, reportCall, left, past>>

\* Mutant: a log that cannot be opened returns with the lock held.
WriteLogHeld(t) ==
    /\ At(t, "write")
    /\ \/ /\ logPath # None /\ reportOwner' = Left
          /\ shown' = shown \cup {<<buffer.of, "log">>}
          /\ ReportReturn(t)
       \/ Goto(t, "fallback") /\ UNCHANGED <<shown, reportOwner>>
    /\ UNCHANGED <<config, latch, noted, textSink, buffer,
                   ret, reading, reportCall, left, forced, invited, named>>

\* Open, append, close; a log that cannot be written leaves stderr.
WriteLog(t) ==
    /\ At(t, "write") /\ reportOwner' = Left
    /\ \/ /\ logPath # None
          /\ shown' = shown \cup {<<buffer.of, "log">>}
          /\ ReportReturn(t)
       \/ Goto(t, "fallback") /\ UNCHANGED shown
    /\ UNCHANGED <<config, latch, noted, textSink, buffer,
                   ret, reading, reportCall, left, forced, invited, named>>

Fallback(t) ==
    /\ At(t, "fallback") /\ Shown(t, "stderr") /\ ReportReturn(t)
    /\ UNCHANGED <<config, latch, noted, textSink, reportOwner, buffer,
                   ret, reading, reportCall, left, forced, invited, named>>

Step(t) ==
    \/ ReadLatch(t) \/ Seed(t) \/ Heard(t) \/ AnswerLatch(t) \/ ForceTextOutput(t)
    \/ Ensure(t) \/ LoadConfigFile(t) \/ ApplyLine(t) \/ Loaded(t)
    \/ HoldForLog(t) \/ SetLogFile(t) \/ SetTextSink(t) \/ Uses(t)
    \/ Display(t) \/ LogNamed(t) \/ Assemble(t) \/ WriteLog(t) \/ Fallback(t)

\* Every thread has made its calls.
Done == \A t \in Threads : ReportIdle(t) /\ left[t] = 0

ReportNext == (\E t \in Threads : Start(t) \/ Step(t)) \/ (Done /\ UNCHANGED reportVars)

ReportSpec == ReportInit /\ [][ReportNext]_reportVars

-----------------------------------------------------------------------------
(* Properties *)

\* Every diagnostic that has been displayed reached exactly one place, and the
\* place has that diagnostic's own text, though two threads share one buffer.
ShownOnce ==
    \A t \in Threads :
        /\ Cardinality({p \in {"dialog", "sink", "log", "stderr"} :
                            <<Event(t), p>> \in shown})
             = IF ReportIdle(t) /\ reportCall[t] = "display" THEN 1 ELSE 0

\* What the host asked ForceTextOutput for stands: a diagnostic of another
\* thread, and a configuration file, cannot bring the dialog back.  It is so for
\* a host that resolves the latch before it starts a thread; otherwise the seed
\* of a thread that found the latch unset may be written over the answer.
ForceStands == settled /\ forced = 1 => latch = 1

\* A path SetLogFile named stays the log until somebody loads a configuration,
\* for a host that resolves the latch, and with it reads the configuration,
\* before another thread can have found it unread.
SettledNamed == settled /\ named # None => logPath = named

\* No diagnostic is shown in a dialog when the configuration a search finds
\* rules dialogs out, unless the host itself has asked for them: for a host
\* that resolves the latch first.
SettledText ==
    /\ settled /\ ~invited /\ Existing # {}
    /\ \A f \in Existing : reportDisk[f] \in {"text", "textlog"}
    => \A e \in shown : e[2] # "dialog"

\* The lock is let go of on every path, also when its holder enters it again:
\* a thread between two calls does not hold it, and no thread waits for one
\* that is done.
LockLetGo == \A t \in Threads : ReportIdle(t) => reportOwner.by # t

\* All of them: where a diagnostic goes, and what the host has said of it,
\* under two threads that display, configure and force.
ReportsStand == ReportTypeOK /\ ShownOnce /\ ForceStands /\ SettledNamed /\ SettledText /\ LockLetGo
=============================================================================
