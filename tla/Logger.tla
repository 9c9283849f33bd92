--------------------------------- MODULE Logger ---------------------------------
(***************************************************************************)
(* The logger (logger/src/lib.rs, rotating.rs): threads that call          *)
(* setup_log or init_log, of which one installs the logger of the process, *)
(* and threads that log through it, to a file and to a ring of the latest  *)
(* lines.  The log crate's one-time installation is external.              *)
(***************************************************************************)
EXTENDS Integers, FiniteSetsExt, Sequences

CONSTANTS
    Threads,
    LOG_SIZE,       \* lines the ring has room for
    MaxUses         \* bound on the calls of setup_log and the lines together

NoLogger == <<>>
Dummy == <<"init_log">>     \* the logger init_log installs: it has no ring
NoLine == <<>>
Newline == <<"newline">>
Err == <<"Err">>

VARIABLES
    installed,  \* what log::set_logger has, or NoLogger
    stored,     \* ROTATING_LOGGER
    dummy_done, \* LOG_DUMMY has been evaluated
    pc,         \* per thread: where it is in setup_log or in format
    mine,       \* per thread: the logger its call has made
    result,     \* per thread: what its last call returned, or NoLogger
    late,       \* ghost, per thread: its call began after one had returned Ok
    setups,     \* calls of setup_log
    line,       \* per thread: the line it logs or logged last, by its number
    has_file,   \* the installed logger writes to a file
    file,       \* what is in the file
    lost,       \* ghost: lines whose write failed
    ring,       \* RotatingLogger.logs of the installed logger, latest first
    appended    \* ghost: every line that was appended to it, in order

vars == <<installed, stored, dummy_done, pc, mine, result, late, setups, line,
          has_file, file, lost, ring, appended>>
setup_vars == <<installed, stored, dummy_done, mine, result, late, setups, has_file>>
log_vars == <<line, file, lost, ring, appended>>

Init ==
    /\ installed = NoLogger /\ stored = NoLogger /\ dummy_done = FALSE
    /\ pc = [t \in Threads |-> "idle"]
    /\ mine = [t \in Threads |-> NoLogger] /\ result = [t \in Threads |-> NoLogger]
    /\ late = [t \in Threads |-> FALSE]
    /\ setups = 0 /\ line = [t \in Threads |-> 0]
    /\ has_file = FALSE /\ file = <<>> /\ lost = {}
    /\ ring = <<>> /\ appended = <<>>

Logged == Max({line[t] : t \in Threads})
SomeOk == \E t \in Threads : result[t] \notin {NoLogger, Err}

(* setup_log up to builder.init: a level that does not parse or a file     *)
(* that does not open is an error.                                         *)
Prepare(t, good) ==
    /\ pc[t] = "idle" /\ setups + Logged < MaxUses
    /\ setups' = setups + 1
    /\ IF good
       THEN /\ pc' = [pc EXCEPT ![t] = "init"]
            /\ mine' = [mine EXCEPT ![t] = <<t, setups'>>]
            /\ result' = [result EXCEPT ![t] = NoLogger]
            /\ late' = [late EXCEPT ![t] = SomeOk]
       ELSE /\ result' = [result EXCEPT ![t] = Err]
            /\ late' = [late EXCEPT ![t] = FALSE]
            /\ UNCHANGED <<pc, mine>>
    /\ UNCHANGED <<installed, stored, dummy_done, has_file>> /\ UNCHANGED log_vars

(* builder.init: the first one to come is installed, once and for all. *)
BuilderInit(t, with_file) ==
    /\ pc[t] = "init"
    /\ IF installed = NoLogger
       THEN /\ installed' = mine[t] /\ has_file' = with_file
            /\ pc' = [pc EXCEPT ![t] = "store"]
       ELSE /\ pc' = [pc EXCEPT ![t] = "fallback"]
            /\ UNCHANGED <<installed, has_file>>
    /\ UNCHANGED <<stored, dummy_done, mine, result, late, setups>> /\ UNCHANGED log_vars

(* Mutant: the weak reference is not kept. *)
StoredAsIs(l) == stored

StoredNow(l) == l

(* and_then *)
StoreWeak(t) ==
    /\ pc[t] = "store"
    /\ stored' = StoredNow(mine[t])
    /\ result' = [result EXCEPT ![t] = mine[t]]
    /\ pc' = [pc EXCEPT ![t] = "idle"]
    /\ UNCHANGED <<installed, dummy_done, mine, late, setups, has_file>> /\ UNCHANGED log_vars

(* The installed logger is never dropped, so upgrade succeeds if one was   *)
(* stored.                                                                 *)
FallenBack(t) == IF stored # NoLogger THEN stored ELSE Err

(* or_else *)
FallBack(t) ==
    /\ pc[t] = "fallback"
    /\ result' = [result EXCEPT ![t] = FallenBack(t)]
    /\ pc' = [pc EXCEPT ![t] = "idle"]
    /\ UNCHANGED <<installed, stored, dummy_done, mine, late, setups, has_file>>
    /\ UNCHANGED log_vars

(* init_log, once: that it cannot install its logger is only printed. *)
InitLog(t) ==
    /\ pc[t] = "idle" /\ ~dummy_done
    /\ dummy_done' = TRUE
    /\ installed' = IF installed = NoLogger THEN Dummy ELSE installed
    /\ UNCHANGED <<stored, pc, mine, result, late, setups, has_file>> /\ UNCHANGED log_vars
-------------------------------------------------------------------------------
(* The format closure.  Two writes to a file opened for appending, whose   *)
(* errors are ignored, and the ring behind its lock.                       *)

Line(t) == <<t, line[t]>>

BeginLine(t) ==
    /\ pc[t] = "idle" /\ installed \notin {NoLogger, Dummy} /\ setups + Logged < MaxUses
    /\ line' = [line EXCEPT ![t] = Logged + 1]
    /\ pc' = [pc EXCEPT ![t] = IF has_file THEN "text" ELSE "append"]
    /\ UNCHANGED <<file, lost, ring, appended>> /\ UNCHANGED setup_vars

WriteText(t, ok) ==
    /\ pc[t] = "text"
    /\ file' = IF ok THEN Append(file, Line(t)) ELSE file
    /\ lost' = IF ok THEN lost ELSE lost \cup {Line(t)}
    /\ pc' = [pc EXCEPT ![t] = "newline"]
    /\ UNCHANGED <<line, ring, appended>> /\ UNCHANGED setup_vars

WriteNewline(t, ok) ==
    /\ pc[t] = "newline"
    /\ file' = IF ok THEN Append(file, Newline) ELSE file
    /\ pc' = [pc EXCEPT ![t] = "append"]
    /\ UNCHANGED <<line, lost, ring, appended>> /\ UNCHANGED setup_vars

(* Mutant: a full ring loses its latest line. *)
AppendedFirst(logs, log) ==
    <<log>> \o (IF Len(logs) = LOG_SIZE THEN Tail(logs) ELSE logs)

(* RotatingLogger::append *)
Appended(logs, log) ==
    <<log>> \o (IF Len(logs) = LOG_SIZE THEN SubSeq(logs, 1, Len(logs) - 1) ELSE logs)

AppendLine(t) ==
    /\ pc[t] = "append"
    /\ ring' = Appended(ring, Line(t))
    /\ appended' = Append(appended, Line(t))
    /\ pc' = [pc EXCEPT ![t] = "idle"]
    /\ UNCHANGED <<line, file, lost>> /\ UNCHANGED setup_vars

Done == /\ \A t \in Threads : pc[t] = "idle" /\ setups + Logged = MaxUses
        /\ UNCHANGED vars

Next == \/ \E t \in Threads : \/ \E b \in BOOLEAN : \/ Prepare(t, b)
                                                    \/ BuilderInit(t, b)
                                                    \/ WriteText(t, b)
                                                    \/ WriteNewline(t, b)
                              \/ StoreWeak(t) \/ FallBack(t) \/ InitLog(t)
                              \/ BeginLine(t) \/ AppendLine(t)
        \/ Done

Spec == Init /\ [][Next]_vars
-------------------------------------------------------------------------------
(* However calls race, all that return Ok have the logger that is          *)
(* installed, the one whose ring is filled.  A call that begins after one  *)
(* has returned Ok does too; one that falls between installation and       *)
(* storing may fail, and so does every one behind init_log.                *)
OneLogger ==
    \A t \in Threads :
        /\ result[t] \notin {NoLogger, Err} => result[t] = installed /\ installed # Dummy
        /\ late[t] => result[t] # Err
        /\ pc[t] = "idle" /\ installed = Dummy => result[t] \in {NoLogger, Err}

(* The ring has the latest lines, latest first; a line is there only after *)
(* the file has it, unless its write failed, and the lines of a thread     *)
(* keep their order in both.  In the file, two threads may share a line.   *)
RingIsLatest ==
    /\ Len(ring) = Min({LOG_SIZE, Len(appended)})
    /\ \A i \in DOMAIN ring : ring[i] = appended[Len(appended) - i + 1]
    /\ has_file => \A i \in DOMAIN appended :
                     appended[i] \in lost \/ \E k \in DOMAIN file : file[k] = appended[i]
    /\ \A lines \in {appended, file} : \A i, j \in DOMAIN lines :
            /\ i < j /\ Newline \notin {lines[i], lines[j]}
            /\ lines[i][1] = lines[j][1]
            => lines[i][2] < lines[j][2]

(* What a program sees of its logger. *)
LoggersAgree == OneLogger /\ RingIsLatest

(* What this rests on: the ring has room for a line (128 in rotating.rs).  *)
LogAssumption == MaxUses \in Nat /\ LOG_SIZE \in Nat \ {0}
===============================================================================
