----------------------------- MODULE LibraryProofs -----------------------------
(***************************************************************************)
(* Proofs about the libraries with a state of their own.                   *)
(***************************************************************************)
EXTENDS Libraries, SetLemmas

-------------------------------------------------------------------------------
(* Logger.                                                                 *)

Loggers == Threads \X Nat
Setting == {"init", "store", "fallback"}
Writing == {"text", "newline", "append"}

LogTyped ==
    /\ installed \in Loggers \union {Log!NoLogger, Log!Dummy}
    /\ stored \in Loggers \union {Log!NoLogger}
    /\ pc \in [Threads -> {"idle"} \union Setting \union Writing]
    /\ mine \in [Threads -> Loggers \union {Log!NoLogger}]
    /\ result \in [Threads -> Loggers \union {Log!NoLogger, Log!Err}]
    /\ late \in [Threads -> BOOLEAN]
    /\ setups \in Nat
    /\ line \in [Threads -> 0 .. MaxUses]
    /\ has_file \in BOOLEAN
    /\ file \in Seq(Loggers \union {Log!Newline})
    /\ ring \in Seq(Loggers) /\ appended \in Seq(Loggers)

\* Whatever is stored is what is installed, and so is what a caller has made
\* that is about to store it; who returned Ok has it.
Installs ==
    /\ stored # Log!NoLogger => stored = installed /\ installed # Log!Dummy
    /\ \A t \in Threads :
         /\ pc[t] \in Setting => mine[t] \in Loggers
         /\ pc[t] = "store" => mine[t] = installed
         /\ result[t] \notin {Log!NoLogger, Log!Err} => result[t] = stored
         /\ late[t] => stored # Log!NoLogger /\ result[t] # Log!Err

\* No line is logged before a logger with a ring is installed, which is what
\* decides whether there is a file.
LogsNothing ==
    installed \in {Log!NoLogger, Log!Dummy} =>
        appended = <<>> /\ \A t \in Threads : pc[t] \notin Writing

Latest(r, all) ==
    /\ Len(r) = IF Len(all) < LOG_SIZE THEN Len(all) ELSE LOG_SIZE
    /\ \A i \in DOMAIN r : r[i] = all[Len(all) - i + 1]

InFile(l) == l \in lost \/ \E k \in DOMAIN file : file[k] = l

\* The file comes first.
Files ==
    has_file =>
        /\ \A i \in DOMAIN appended : InFile(appended[i])
        /\ \A t \in Threads : pc[t] \in {"newline", "append"} => InFile(Log!Line(t))

\* The lines of a thread are in order; `num` has the latest it began, which is
\* later than all of them while it is still to be written.
Ordered(lines, pending, at, num) ==
    \A i \in DOMAIN lines : lines[i] # Log!Newline =>
        /\ lines[i][2] <= num[lines[i][1]]
        /\ at[lines[i][1]] \in pending => lines[i][2] < num[lines[i][1]]
        /\ \A j \in DOMAIN lines :
             i < j /\ lines[j] # Log!Newline /\ lines[i][1] = lines[j][1]
                => lines[i][2] < lines[j][2]

LogInv ==
    /\ LogTyped /\ Installs /\ LogsNothing /\ Latest(ring, appended) /\ Files
    /\ Ordered(appended, Writing, pc, line) /\ Ordered(file, {"text"}, pc, line)

\* The markers are no loggers and no lines: they have other lengths.
LEMMA LogMarkers ==
    /\ Log!NoLogger \notin Loggers /\ Log!Dummy \notin Loggers /\ Log!Err \notin Loggers
    /\ Log!Newline \notin Loggers
    /\ Log!NoLogger # Log!Dummy /\ Log!NoLogger # Log!Err
<1>1. \A l \in Loggers : Len(l) = 2
    BY DEF Loggers
<1>2. /\ Len(Log!NoLogger) = 0 /\ Len(Log!Dummy) = 1 /\ Len(Log!Err) = 1
      /\ Len(Log!Newline) = 1
    BY DEF Log!NoLogger, Log!Dummy, Log!Err, Log!Newline
<1>3. QED BY <1>1, <1>2

\* The number of a line is above those of all lines logged so far.
LEMMA LoggedMost ==
    ASSUME LogTyped, Log!LogAssumption, NEW t \in Threads
    PROVE  Log!Logged \in 0 .. MaxUses /\ \A u \in Threads : line[u] <= Log!Logged
<1> DEFINE T == {line[u] : u \in Threads}
           D == {MaxUses - x : x \in T}
<1>1. \A u \in Threads : line[u] \in 0 .. MaxUses
    BY DEF LogTyped
<1>2. T \subseteq 0 .. MaxUses /\ line[t] \in T /\ MaxUses \in Nat
    BY <1>1 DEF Log!LogAssumption
<1>3. D \subseteq Nat /\ D # {}
    BY <1>2
<1>4. PICK d \in D : \A e \in D : d <= e
    BY <1>3, LeastNatural
<1>5. PICK x \in T : d = MaxUses - x
    OBVIOUS
<1>6. \A y \in T : MaxUses - x <= MaxUses - y
    BY <1>4, <1>5
<1>7. \A y \in T : x >= y
    <2>1. \A y \in T : y \in Int /\ x \in Int /\ MaxUses \in Int
        BY <1>2
    <2> HIDE DEF T
    <2>2. QED BY <2>1, <1>6
<1>8. Log!Logged \in T /\ \A y \in T : Log!Logged >= y
    BY <1>7 DEF Log!Logged, Log!Max
<1>9. QED BY <1>1, <1>2, <1>8

\* RotatingLogger::append keeps the latest lines.
LEMMA AppendedLatest ==
    ASSUME NEW r \in Seq(Loggers), NEW all \in Seq(Loggers), NEW l \in Loggers,
           Latest(r, all), Log!LogAssumption
    PROVE  /\ Log!Appended(r, l) \in Seq(Loggers)
           /\ Latest(Log!Appended(r, l), Append(all, l))
<1>1. Len(r) \in Nat /\ Len(all) \in Nat /\ LOG_SIZE \in Nat \ {0}
    BY DEF Log!LogAssumption
<1> DEFINE older == IF Len(r) = LOG_SIZE THEN SubSeq(r, 1, Len(r) - 1) ELSE r
           n == IF Len(r) = LOG_SIZE THEN LOG_SIZE - 1 ELSE Len(r)
<1>2. older \in Seq(Loggers) /\ Len(older) = n /\ \A i \in 1 .. n : older[i] = r[i]
    <2>1. CASE Len(r) = LOG_SIZE
        BY <2>1, <1>1
    <2>2. CASE Len(r) # LOG_SIZE
        BY <2>2, <1>1
    <2>3. QED BY <2>1, <2>2
<1>3. n \in Nat /\ n <= Len(r)
    BY <1>1
<1> HIDE DEF older
<1>4. Log!Appended(r, l) = <<l>> \o older
    BY DEF Log!Appended, older
<1>5. /\ <<l>> \o older \in Seq(Loggers)
      /\ Len(<<l>> \o older) = n + 1
      /\ (<<l>> \o older)[1] = l
      /\ \A i \in 2 .. n + 1 : (<<l>> \o older)[i] = older[i - 1]
    BY <1>2, <1>3
<1> DEFINE new == <<l>> \o older
           more == Append(all, l)
<1>6. /\ Len(more) = Len(all) + 1 /\ more[Len(all) + 1] = l
      /\ \A i \in 1 .. Len(all) : more[i] = all[i]
    OBVIOUS
<1>7. DOMAIN new = 1 .. n + 1 /\ DOMAIN r = 1 .. Len(r)
    BY <1>5
<1> HIDE DEF new, more
<1>8. Len(new) = IF Len(more) < LOG_SIZE THEN Len(more) ELSE LOG_SIZE
    BY <1>1, <1>5, <1>6 DEF Latest, new
<1>9. \A i \in 1 .. n + 1 : new[i] = more[Len(more) - i + 1]
    <2> SUFFICES ASSUME NEW i \in 1 .. n + 1 PROVE new[i] = more[Len(more) - i + 1]
        OBVIOUS
    <2>1. CASE i = 1
        BY <2>1, <1>1, <1>5, <1>6 DEF new
    <2>2. CASE i # 1
        <3>1. i \in 2 .. n + 1 /\ i - 1 \in 1 .. n
            BY <2>2, <1>3
        <3>2. new[i] = r[i - 1]
            BY <3>1, <1>2, <1>5 DEF new
        <3>3. i - 1 \in DOMAIN r
            <4>1. i - 1 \in 1 .. Len(r)
                BY <3>1, <1>1, <1>3
            <4>2. QED BY <4>1, <1>7
        <3>4. r[i - 1] = all[Len(all) - (i - 1) + 1]
            BY <3>3 DEF Latest
        <3>5. Len(all) - (i - 1) + 1 \in 1 .. Len(all)
            <4>1. Len(r) <= Len(all)
                BY <1>1 DEF Latest
            <4>2. QED BY <4>1, <3>1, <1>1, <1>3
        <3>6. Len(more) - i + 1 = Len(all) - (i - 1) + 1
            BY <1>1, <1>6, <3>1
        <3>7. QED BY <3>2, <3>4, <3>5, <3>6, <1>6
    <2>3. QED BY <2>1, <2>2
<1>10. QED BY <1>4, <1>5, <1>7, <1>8, <1>9 DEF Latest, new, more

\* Nothing is installed, nobody is doing anything, nothing was logged.
LEMMA LogStart == Log!LogAssumption /\ Log!Init => LogInv
<1> SUFFICES ASSUME Log!LogAssumption, Log!Init PROVE LogInv
    OBVIOUS
<1>1. LogTyped
    <2>1. file = <<>> /\ ring = <<>> /\ appended = <<>>
        BY DEF Log!Init
    <2>2. file \in Seq(Loggers \union {Log!Newline}) /\ ring \in Seq(Loggers)
          /\ appended \in Seq(Loggers)
        BY <2>1
    <2>3. line \in [Threads -> 0 .. MaxUses]
        BY DEF Log!Init, Log!LogAssumption
    <2>4. QED BY <2>2, <2>3 DEF LogTyped, Log!Init
<1>2. Installs /\ LogsNothing
    BY DEF Installs, LogsNothing, Log!Init, Setting, Writing
<1>3. Len(ring) = 0 /\ Len(appended) = 0 /\ DOMAIN ring = {} /\ DOMAIN appended = {}
      /\ DOMAIN file = {}
    BY DEF Log!Init
<1>4. Latest(ring, appended)
    BY <1>3 DEF Latest, Log!LogAssumption
<1>5. Files /\ Ordered(appended, Writing, pc, line) /\ Ordered(file, {"text"}, pc, line)
    BY <1>3 DEF Files, Ordered, Log!Init
<1>6. QED BY <1>1, <1>2, <1>4, <1>5 DEF LogInv

\* A step of a call of setup_log or init_log leaves the lines and those who are
\* writing them alone.
SetsUp ==
    /\ UNCHANGED Log!log_vars
    /\ \A t \in Threads : pc'[t] \in Writing <=> pc[t] \in Writing
    /\ \A t \in Threads : pc[t] \in Writing => pc'[t] = pc[t]
    /\ has_file' = has_file \/ installed = Log!NoLogger

\* What setup_log and init_log do leaves the lines alone.
LEMMA LinesKept ==
    ASSUME LogInv, SetsUp
    PROVE  /\ Latest(ring, appended)' /\ Files'
           /\ Ordered(appended', Writing, pc', line') /\ Ordered(file', {"text"}, pc', line')
<1>1. /\ line' = line /\ file' = file /\ lost' = lost /\ ring' = ring /\ appended' = appended
    BY DEF SetsUp, Log!log_vars
<1>2. Latest(ring, appended)'
    BY <1>1 DEF LogInv, Latest
<1>3. ASSUME NEW i \in DOMAIN file, file[i] # Log!Newline PROVE file[i][1] \in Threads
    BY <1>3 DEF LogInv, LogTyped, Loggers
<1>4. ASSUME NEW i \in DOMAIN appended PROVE appended[i][1] \in Threads
    BY <1>4 DEF LogInv, LogTyped, Loggers
<1>5. Ordered(file', {"text"}, pc', line')
    BY <1>1, <1>3 DEF LogInv, SetsUp, Ordered, Writing
<1>6. Ordered(appended', Writing, pc', line')
    BY <1>1, <1>4 DEF LogInv, SetsUp, Ordered, Writing
<1>7. Files'
    <2>1. CASE has_file' = has_file
        BY <2>1, <1>1 DEF LogInv, SetsUp, Files, InFile, Log!Line, Writing
    <2>2. CASE installed = Log!NoLogger
        <3>1. appended' = <<>> /\ \A t \in Threads : pc'[t] \notin Writing
            BY <2>2, <1>1 DEF LogInv, LogsNothing, SetsUp
        <3>2. QED BY <3>1 DEF Files, Writing
    <2>3. QED BY <2>1, <2>2 DEF SetsUp
<1>8. QED BY <1>2, <1>5, <1>6, <1>7

\* setup_log begins, or fails before it has a logger to install.
LEMMA PrepareStep ==
    ASSUME LogInv, NEW t \in Threads, NEW good \in BOOLEAN, Log!Prepare(t, good)
    PROVE  LogInv'
<1>1. /\ pc[t] = "idle" /\ setups' = setups + 1
      /\ installed' = installed /\ stored' = stored /\ has_file' = has_file
      /\ UNCHANGED Log!log_vars
    BY DEF Log!Prepare
<1>2. <<t, setups'>> \in Loggers
    BY <1>1 DEF LogInv, LogTyped, Loggers
<1>3. /\ \A u \in Threads \ {t} : /\ pc'[u] = pc[u] /\ mine'[u] = mine[u]
                                  /\ result'[u] = result[u] /\ late'[u] = late[u]
      /\ pc'[t] \in {"init", "idle"}
      /\ pc'[t] = "init" => mine'[t] \in Loggers
      /\ result'[t] \in {Log!NoLogger, Log!Err}
      /\ late'[t] => Log!SomeOk /\ result'[t] = Log!NoLogger
      /\ late'[t] \in BOOLEAN
    <2>1. CASE good
        BY <2>1, <1>1, <1>2 DEF LogInv, LogTyped, Log!Prepare, Log!SomeOk
    <2>2. CASE ~good
        BY <2>2, <1>1 DEF LogInv, LogTyped, Log!Prepare
    <2>3. QED BY <2>1, <2>2
<1>4. LogTyped'
    <2>1. /\ pc' \in [Threads -> {"idle"} \union Setting \union Writing]
          /\ mine' \in [Threads -> Loggers \union {Log!NoLogger}]
          /\ result' \in [Threads -> Loggers \union {Log!NoLogger, Log!Err}]
          /\ late' \in [Threads -> BOOLEAN]
        <3>1. CASE good
            <4>1. /\ pc' = [pc EXCEPT ![t] = "init"]
                  /\ mine' = [mine EXCEPT ![t] = <<t, setups'>>]
                  /\ result' = [result EXCEPT ![t] = Log!NoLogger]
                  /\ late' = [late EXCEPT ![t] = Log!SomeOk]
                BY <3>1 DEF Log!Prepare
            <4>2. Log!SomeOk \in BOOLEAN /\ "init" \in Setting
                BY DEF Log!SomeOk, Setting
            <4>3. QED BY <1>2, <4>1, <4>2 DEF LogInv, LogTyped
        <3>2. CASE ~good
            BY <3>2 DEF LogInv, LogTyped, Log!Prepare
        <3>3. QED BY <3>1, <3>2
    <2>2. QED BY <2>1, <1>1 DEF LogInv, LogTyped, Log!log_vars
<1>5. Log!SomeOk => stored # Log!NoLogger
    BY DEF LogInv, Installs, Log!SomeOk
<1>6. Installs'
    BY <1>1, <1>3, <1>5, LogMarkers DEF LogInv, Installs, Setting
<1>7. LogsNothing'
    BY <1>1, <1>3 DEF LogInv, LogsNothing, Writing, Log!log_vars
<1>8. SetsUp
    BY <1>1, <1>3 DEF SetsUp, Writing
<1>9. QED BY <1>4, <1>6, <1>7, <1>8, LinesKept DEF LogInv

\* builder.init installs the logger, unless there is one.
LEMMA BuilderInitStep ==
    ASSUME LogInv, NEW t \in Threads, NEW b \in BOOLEAN, Log!BuilderInit(t, b)
    PROVE  LogInv'
<1>1. /\ pc[t] = "init" /\ mine' = mine /\ result' = result /\ late' = late
      /\ stored' = stored /\ setups' = setups /\ UNCHANGED Log!log_vars
    BY DEF Log!BuilderInit
<1>2. mine[t] \in Loggers
    BY <1>1 DEF LogInv, Installs, Setting
<1>3. /\ pc' \in [Threads -> {"idle"} \union Setting \union Writing]
      /\ \A u \in Threads \ {t} : pc'[u] = pc[u]
      /\ pc'[t] \in {"store", "fallback"}
      /\ pc'[t] = "store" => installed = Log!NoLogger /\ installed' = mine[t]
      /\ installed' = installed \/ (installed = Log!NoLogger /\ installed' = mine[t])
      /\ has_file' = has_file \/ installed = Log!NoLogger
      /\ has_file' \in BOOLEAN
    BY DEF LogInv, LogTyped, Log!BuilderInit, Setting
<1>4. LogTyped'
    BY <1>1, <1>2, <1>3 DEF LogInv, LogTyped, Log!log_vars
<1>5. \A u \in Threads : pc[u] = "store" => installed \in Loggers
    BY DEF LogInv, Installs, Setting
<1>6. installed = Log!NoLogger => stored = Log!NoLogger
    BY LogMarkers DEF LogInv, Installs
<1>7. Installs'
    <2>1. stored' # Log!NoLogger => stored' = installed' /\ installed' # Log!Dummy
        BY <1>1, <1>3, <1>6 DEF LogInv, Installs
    <2>2. ASSUME NEW u \in Threads
          PROVE  /\ pc'[u] \in Setting => mine'[u] \in Loggers
                 /\ pc'[u] = "store" => mine'[u] = installed'
                 /\ result'[u] \notin {Log!NoLogger, Log!Err} => result'[u] = stored'
                 /\ late'[u] => stored' # Log!NoLogger /\ result'[u] # Log!Err
        <3>1. CASE u = t
            BY <3>1, <1>1, <1>2, <1>3 DEF LogInv, Installs, Setting
        <3>2. CASE u # t
            BY <3>2, <1>1, <1>3, <1>5, LogMarkers DEF LogInv, Installs, Setting
        <3>3. QED BY <3>1, <3>2
    <2>3. QED BY <2>1, <2>2 DEF Installs
<1>8. LogsNothing'
    BY <1>1, <1>2, <1>3, LogMarkers DEF LogInv, LogsNothing, Writing, Log!log_vars
<1>9. SetsUp
    BY <1>1, <1>3 DEF SetsUp, Writing
<1>10. QED BY <1>4, <1>7, <1>8, <1>9, LinesKept DEF LogInv

\* The caller whose logger was installed stores it.
LEMMA StoreWeakStep ==
    ASSUME LogInv, NEW t \in Threads, Log!StoreWeak(t)
    PROVE  LogInv'
<1>1. /\ pc[t] = "store" /\ stored' = mine[t]
      /\ installed' = installed /\ mine' = mine /\ late' = late
      /\ setups' = setups /\ has_file' = has_file /\ UNCHANGED Log!log_vars
      /\ result' = [result EXCEPT ![t] = mine[t]] /\ pc' = [pc EXCEPT ![t] = "idle"]
    BY DEF Log!StoreWeak, Log!StoredNow
<1>2. mine[t] \in Loggers /\ mine[t] = installed
    BY <1>1 DEF LogInv, Installs, Setting
<1>3. LogTyped'
    BY <1>1, <1>2 DEF LogInv, LogTyped, Log!log_vars
<1>4. \A u \in Threads : /\ u # t => pc'[u] = pc[u] /\ result'[u] = result[u]
                         /\ u = t => pc'[u] = "idle" /\ result'[u] = mine[t]
    BY <1>1 DEF LogInv, LogTyped
<1>5. \A u \in Threads : result[u] \notin {Log!NoLogger, Log!Err} => result[u] = installed
    BY DEF LogInv, Installs
<1>6. Installs'
    BY <1>1, <1>2, <1>4, <1>5, LogMarkers DEF LogInv, Installs, Setting
<1>7. LogsNothing'
    BY <1>1, <1>2, LogMarkers DEF LogInv, LogsNothing
<1>8. SetsUp
    BY <1>1, <1>4 DEF SetsUp, Writing
<1>9. QED BY <1>3, <1>6, <1>7, <1>8, LinesKept DEF LogInv

\* The caller whose logger was not installed looks for the stored one.
LEMMA FallBackStep ==
    ASSUME LogInv, NEW t \in Threads, Log!FallBack(t)
    PROVE  LogInv'
<1>1. /\ pc[t] = "fallback" /\ stored' = stored
      /\ installed' = installed /\ mine' = mine /\ late' = late
      /\ setups' = setups /\ has_file' = has_file /\ UNCHANGED Log!log_vars
      /\ result' = [result EXCEPT ![t] = Log!FallenBack(t)]
      /\ pc' = [pc EXCEPT ![t] = "idle"]
    BY DEF Log!FallBack
<1>2. /\ Log!FallenBack(t) \in Loggers \union {Log!Err}
      /\ stored # Log!NoLogger => Log!FallenBack(t) = stored /\ Log!FallenBack(t) # Log!Err
      /\ stored = Log!NoLogger => Log!FallenBack(t) = Log!Err
    BY LogMarkers DEF LogInv, LogTyped, Log!FallenBack
<1>3. LogTyped'
    BY <1>1, <1>2 DEF LogInv, LogTyped, Log!log_vars
<1>4. \A u \in Threads : /\ u # t => pc'[u] = pc[u] /\ result'[u] = result[u]
                         /\ u = t => pc'[u] = "idle" /\ result'[u] = Log!FallenBack(t)
    BY <1>1 DEF LogInv, LogTyped
<1>5. Installs'
    BY <1>1, <1>2, <1>4 DEF LogInv, Installs, Setting
<1>6. LogsNothing'
    BY <1>1, <1>4 DEF LogInv, LogsNothing, Writing, Log!log_vars
<1>7. SetsUp
    BY <1>1, <1>4 DEF SetsUp, Writing
<1>8. QED BY <1>3, <1>5, <1>6, <1>7, LinesKept DEF LogInv

\* init_log installs the dummy, unless there is a logger.
LEMMA InitLogStep ==
    ASSUME LogInv, NEW t \in Threads, Log!InitLog(t)
    PROVE  LogInv'
<1>1. /\ stored' = stored /\ pc' = pc /\ mine' = mine /\ result' = result /\ late' = late
      /\ setups' = setups /\ has_file' = has_file /\ UNCHANGED Log!log_vars
      /\ installed' = IF installed = Log!NoLogger THEN Log!Dummy ELSE installed
    BY DEF Log!InitLog
<1>2. LogTyped'
    BY <1>1 DEF LogInv, LogTyped, Log!log_vars
<1>3. installed = Log!NoLogger =>
          stored = Log!NoLogger /\ \A u \in Threads : pc[u] # "store"
    BY LogMarkers DEF LogInv, Installs, Setting
<1>4. Installs'
    BY <1>1, <1>3 DEF LogInv, Installs
<1>5. LogsNothing'
    BY <1>1, LogMarkers DEF LogInv, LogsNothing, Log!log_vars
<1>6. SetsUp
    BY <1>1 DEF SetsUp
<1>7. QED BY <1>2, <1>4, <1>5, <1>6, LinesKept DEF LogInv

\* A step of logging a line leaves the calls of setup_log alone.
Logs(t) ==
    /\ UNCHANGED Log!setup_vars
    /\ pc[t] \in Writing \/ installed \notin {Log!NoLogger, Log!Dummy}
    /\ pc'[t] \in Writing \union {"idle"}
    /\ pc' = [pc EXCEPT ![t] = pc'[t]]

\* What logs a line leaves the loggers alone.
LEMMA SetupKept ==
    ASSUME LogInv, NEW t \in Threads, Logs(t)
    PROVE  Installs' /\ LogsNothing'
<1>1. /\ installed' = installed /\ stored' = stored /\ mine' = mine /\ result' = result
      /\ late' = late
    BY DEF Logs, Log!setup_vars
<1>2. \A u \in Threads : pc'[u] \in Setting \union {"store"} => pc'[u] = pc[u]
    BY DEF LogInv, LogTyped, Logs, Setting, Writing
<1>3. Installs'
    BY <1>1, <1>2 DEF LogInv, Installs, Setting
<1>4. installed \notin {Log!NoLogger, Log!Dummy}
    BY DEF LogInv, LogsNothing, Logs
<1>5. QED BY <1>1, <1>3, <1>4 DEF LogsNothing

\* Appending the line that a thread began, which is later than all that it has
\* logged, keeps the order.
LEMMA OrderedMore ==
    ASSUME NEW num \in [Threads -> Nat], NEW at, DOMAIN at = Threads, NEW t \in Threads,
           NEW lines \in Seq(Loggers \union {Log!Newline}), NEW pending, NEW after,
           Ordered(lines, pending, at, num), at[t] \in pending, after \notin pending
    PROVE  Ordered(Append(lines, <<t, num[t]>>), pending, [at EXCEPT ![t] = after], num)
<1> DEFINE l == <<t, num[t]>>
           more == Append(lines, l)
           at2 == [at EXCEPT ![t] = after]
<1>1. /\ l \in Loggers /\ l[1] = t /\ l[2] = num[t] /\ num[t] \in Int
      /\ l # Log!Newline
    BY LogMarkers DEF Loggers
<1>2. /\ Len(lines) \in Nat /\ DOMAIN lines = 1 .. Len(lines)
      /\ DOMAIN more = 1 .. Len(lines) + 1 /\ more[Len(lines) + 1] = l
      /\ \A i \in DOMAIN lines : more[i] = lines[i]
    OBVIOUS
<1>3. \A i \in DOMAIN lines : lines[i] # Log!Newline =>
          lines[i][1] \in Threads /\ lines[i][2] \in Nat
    BY DEF Loggers
<1>4. \A u \in Threads : num[u] \in Int /\ at2[u] = IF u = t THEN after ELSE at[u]
    OBVIOUS
<1> HIDE DEF l, more, at2
<1>5. \A i \in DOMAIN lines : lines[i] # Log!Newline =>
          /\ lines[i][2] <= num[lines[i][1]]
          /\ at[lines[i][1]] \in pending => lines[i][2] < num[lines[i][1]]
          /\ \A j \in DOMAIN lines :
               i < j /\ lines[j] # Log!Newline /\ lines[i][1] = lines[j][1]
                  => lines[i][2] < lines[j][2]
    BY DEF Ordered
<1>6. ASSUME NEW i \in DOMAIN more, more[i] # Log!Newline
      PROVE  /\ more[i][2] <= num[more[i][1]]
             /\ at2[more[i][1]] \in pending => more[i][2] < num[more[i][1]]
             /\ \A j \in DOMAIN more :
                  i < j /\ more[j] # Log!Newline /\ more[i][1] = more[j][1]
                     => more[i][2] < more[j][2]
    <2>1. CASE i = Len(lines) + 1
        <3>1. \A j \in DOMAIN more : ~ (i < j)
            BY <2>1, <1>2
        <3>2. more[i][2] = num[t] /\ more[i][1] = t
            BY <2>1, <1>1, <1>2
        <3>3. QED BY <3>1, <3>2, <1>1, <1>4
    <2>2. CASE i \in DOMAIN lines
        <3>1. more[i] = lines[i] /\ lines[i] # Log!Newline
            BY <2>2, <1>2, <1>6
        <3>2. lines[i][1] \in Threads
            BY <2>2, <3>1, <1>3
        <3>3. at2[lines[i][1]] \in pending => at[lines[i][1]] \in pending
            BY <3>2, <1>4
        <3>4. lines[i][1] = t => lines[i][2] < num[t]
            BY <2>2, <3>1, <1>5
        <3>5. ASSUME NEW j \in DOMAIN more, i < j, more[j] # Log!Newline,
                     lines[i][1] = more[j][1]
              PROVE  lines[i][2] < more[j][2]
            <4>1. CASE j = Len(lines) + 1
                BY <4>1, <3>4, <3>5, <1>1, <1>2
            <4>2. CASE j \in DOMAIN lines
                BY <4>2, <2>2, <3>1, <3>5, <1>2, <1>5
            <4>3. QED BY <4>1, <4>2, <1>2
        <3>6. QED BY <2>2, <3>1, <3>3, <3>5, <1>5
    <2>3. QED BY <2>1, <2>2, <1>2
<1>7. QED BY <1>6 DEF Ordered, more, l, at2

\* So does a step of a thread that appends nothing, or a newline, if its line
\* was still to be written or is not now.
LEMMA OrderedKept ==
    ASSUME NEW num \in [Threads -> Nat], NEW at, DOMAIN at = Threads, NEW t \in Threads,
           NEW lines \in Seq(Loggers \union {Log!Newline}), NEW pending, NEW after,
           Ordered(lines, pending, at, num), at[t] \in pending \/ after \notin pending
    PROVE  /\ Ordered(lines, pending, [at EXCEPT ![t] = after], num)
           /\ Ordered(Append(lines, Log!Newline), pending, [at EXCEPT ![t] = after], num)
<1> DEFINE at2 == [at EXCEPT ![t] = after]
           more == Append(lines, Log!Newline)
<1>1. ASSUME NEW i \in DOMAIN lines, lines[i] # Log!Newline
      PROVE  lines[i][1] \in Threads
    BY <1>1 DEF Loggers
<1>2. \A u \in Threads : at2[u] \in pending => at[u] \in pending
    OBVIOUS
<1>3. /\ DOMAIN more = DOMAIN lines \union {Len(lines) + 1}
      /\ more[Len(lines) + 1] = Log!Newline
      /\ \A i \in DOMAIN lines : more[i] = lines[i]
    OBVIOUS
<1> HIDE DEF at2, more
<1>4. Ordered(lines, pending, at2, num)
    BY <1>1, <1>2 DEF Ordered
<1>5. Ordered(more, pending, at2, num)
    BY <1>3, <1>4 DEF Ordered
<1>6. QED BY <1>4, <1>5 DEF at2, more

\* And one that begins a line with a number above all others.
LEMMA OrderedBegun ==
    ASSUME NEW num \in [Threads -> Nat], NEW at, NEW t \in Threads, NEW n \in Nat, NEW after,
           \A u \in Threads : num[u] < n, DOMAIN at = Threads,
           NEW lines \in Seq(Loggers \union {Log!Newline}), NEW pending,
           Ordered(lines, pending, at, num)
    PROVE  Ordered(lines, pending, [at EXCEPT ![t] = after], [num EXCEPT ![t] = n])
<1> DEFINE at2 == [at EXCEPT ![t] = after]
           num2 == [num EXCEPT ![t] = n]
<1>1. ASSUME NEW i \in DOMAIN lines, lines[i] # Log!Newline
      PROVE  lines[i][1] \in Threads /\ lines[i][2] \in Int
    BY <1>1 DEF Loggers
<1>2. \A u \in Threads : /\ num[u] \in Int /\ num2[u] \in Int
                         /\ u # t => num2[u] = num[u] /\ at2[u] = at[u]
                         /\ u = t => num2[u] > num[u]
    OBVIOUS
<1> HIDE DEF at2, num2
<1>3. ASSUME NEW i \in DOMAIN lines, lines[i] # Log!Newline
      PROVE  /\ lines[i][2] <= num2[lines[i][1]]
             /\ at2[lines[i][1]] \in pending => lines[i][2] < num2[lines[i][1]]
    <2> DEFINE w == lines[i][1]
               x == lines[i][2]
    <2>1. w \in Threads /\ x \in Int
        BY <1>1, <1>3
    <2>2. x <= num[w] /\ (at[w] \in pending => x < num[w])
        BY <1>3 DEF Ordered
    <2> HIDE DEF w, x
    <2>3. x <= num2[w] /\ (at2[w] \in pending => x < num2[w])
        BY <2>1, <2>2, <1>2
    <2>4. QED BY <2>3 DEF w, x
<1>4. QED BY <1>3 DEF Ordered, at2, num2

\* In the states of the logger the lemmas apply to what was appended and to the
\* file.
LEMMA LogShapes ==
    ASSUME LogTyped, Log!LogAssumption
    PROVE  /\ line \in [Threads -> Nat] /\ DOMAIN pc = Threads
           /\ file \in Seq(Loggers \union {Log!Newline})
           /\ appended \in Seq(Loggers \union {Log!Newline})
<1>1. line \in [Threads -> Nat]
    BY DEF LogTyped, Log!LogAssumption
<1>2. appended \in Seq(Loggers \union {Log!Newline})
    BY DEF LogTyped
<1>3. QED BY <1>1, <1>2 DEF LogTyped

\* A thread begins a line of its own number.
LEMMA BeginLineStep ==
    ASSUME Log!LogAssumption, LogInv, NEW t \in Threads, Log!BeginLine(t)
    PROVE  LogInv'
<1>1. /\ pc[t] = "idle" /\ installed \notin {Log!NoLogger, Log!Dummy}
      /\ setups + Log!Logged < MaxUses
      /\ line' = [line EXCEPT ![t] = Log!Logged + 1]
      /\ pc' = [pc EXCEPT ![t] = IF has_file THEN "text" ELSE "append"]
      /\ file' = file /\ lost' = lost /\ ring' = ring /\ appended' = appended
      /\ UNCHANGED Log!setup_vars
    BY DEF Log!BeginLine
<1>2. Log!Logged \in 0 .. MaxUses /\ \A u \in Threads : line[u] <= Log!Logged
    BY LoggedMost DEF LogInv
<1>3. Log!Logged + 1 \in 0 .. MaxUses
    BY <1>1, <1>2 DEF LogInv, LogTyped, Log!LogAssumption
<1>4. pc'[t] = IF has_file THEN "text" ELSE "append"
    BY <1>1 DEF LogInv, LogTyped
<1>5. LogTyped'
    BY <1>1, <1>3 DEF LogInv, LogTyped, Log!setup_vars, Writing
<1>6. Logs(t)
    BY <1>1, <1>4 DEF Logs, Writing
<1>7. Latest(ring, appended)'
    BY <1>1 DEF LogInv, Latest
<1>8. \A u \in Threads : line[u] < Log!Logged + 1
    BY <1>2 DEF LogInv, LogTyped
<1>9. Log!Logged + 1 \in Nat
    BY <1>3
<1>10. \A u \in Threads : u # t => line'[u] = line[u] /\ pc'[u] = pc[u]
    BY <1>1 DEF LogInv, LogTyped
<1>11. Ordered(file', {"text"}, pc', line')
    BY <1>1, <1>8, <1>9, LogShapes, OrderedBegun DEF LogInv
<1>12. Ordered(appended', Writing, pc', line')
    BY <1>1, <1>8, <1>9, LogShapes, OrderedBegun DEF LogInv
<1>13. Files'
    BY <1>1, <1>4, <1>10 DEF LogInv, Files, InFile, Log!Line, Log!setup_vars
<1>14. QED BY <1>5, <1>6, <1>7, <1>11, <1>12, <1>13, SetupKept DEF LogInv

\* The text is in the file, or lost.
LEMMA WriteTextStep ==
    ASSUME Log!LogAssumption, LogInv, NEW t \in Threads, NEW ok \in BOOLEAN, Log!WriteText(t, ok)
    PROVE  LogInv'
<1>1. /\ pc[t] = "text" /\ pc' = [pc EXCEPT ![t] = "newline"]
      /\ line' = line /\ ring' = ring /\ appended' = appended
      /\ file' = IF ok THEN Append(file, Log!Line(t)) ELSE file
      /\ lost' = IF ok THEN lost ELSE lost \cup {Log!Line(t)}
      /\ UNCHANGED Log!setup_vars
    BY DEF Log!WriteText
<1>2. /\ pc'[t] = "newline" /\ \A u \in Threads \ {t} : pc'[u] = pc[u]
      /\ Log!Line(t) \in Loggers /\ file \in Seq(Loggers \union {Log!Newline})
    BY <1>1 DEF LogInv, LogTyped, Loggers, Log!Line
<1>3. file' \in Seq(Loggers \union {Log!Newline})
    BY <1>1, <1>2
<1>4. LogTyped'
    BY <1>1, <1>3 DEF LogInv, LogTyped, Log!setup_vars, Writing
<1>5. Logs(t)
    BY <1>1, <1>2 DEF Logs, Writing
<1>6. Latest(ring, appended)'
    BY <1>1 DEF LogInv, Latest
<1>7. Ordered(file', {"text"}, pc', line')
    <2>1. CASE ok
        BY <2>1, <1>1, LogShapes, OrderedMore DEF LogInv, Log!Line
    <2>2. CASE ~ok
        BY <2>2, <1>1, LogShapes, OrderedKept DEF LogInv
    <2>3. QED BY <2>1, <2>2
<1>8. Ordered(appended', Writing, pc', line')
    BY <1>1, LogShapes, OrderedKept DEF LogInv, Writing
<1>9. Files'
    <2>1. Log!Line(t) \in lost' \/ \E k \in DOMAIN file' : file'[k] = Log!Line(t)
        BY <1>1, <1>2
    <2>2. \A l : InFile(l) => l \in lost' \/ \E k \in DOMAIN file' : file'[k] = l
        BY <1>1, <1>2 DEF InFile
    <2>3. has_file' = has_file
        BY <1>1 DEF Log!setup_vars
    <2>4. \A u \in Threads : <<u, line'[u]>> = Log!Line(u)
        BY <1>1 DEF Log!Line
    <2>5. \A u \in Threads : pc'[u] \in {"newline", "append"} =>
              u = t \/ pc[u] \in {"newline", "append"}
        BY <1>2
    <2>6. \A i \in DOMAIN appended' : has_file' => InFile(appended[i])'
        <3>1. SUFFICES ASSUME NEW i \in DOMAIN appended, has_file PROVE InFile(appended[i])'
            BY <1>1, <2>3
        <3>2. InFile(appended[i])
            BY <3>1 DEF LogInv, Files
        <3>3. appended'[i] = appended[i]
            BY <1>1
        <3>4. QED BY <2>2, <3>2, <3>3 DEF InFile
    <2>7. \A u \in Threads : has_file' /\ pc'[u] \in {"newline", "append"} => InFile(Log!Line(u))'
        <3>1. SUFFICES ASSUME NEW u \in Threads, has_file, pc'[u] \in {"newline", "append"}
                       PROVE  InFile(Log!Line(u))'
            BY <2>3
        <3>2. Log!Line(u)' = Log!Line(u)
            BY <2>4 DEF Log!Line
        <3>3. CASE u = t
            BY <2>1, <3>2, <3>3 DEF InFile
        <3>4. CASE u # t
            <4>1. InFile(Log!Line(u))
                BY <2>5, <3>1, <3>4 DEF LogInv, Files
            <4>2. QED BY <2>2, <3>2, <4>1 DEF InFile
        <3>5. QED BY <3>3, <3>4
    <2>8. SUFFICES ASSUME has_file'
                   PROVE  /\ \A i \in DOMAIN appended' : InFile(appended[i])'
                          /\ \A u \in Threads : pc'[u] \in {"newline", "append"}
                                                  => InFile(Log!Line(u))'
        BY DEF Files
    <2>9. QED BY <2>6, <2>7, <2>8
<1>10. QED BY <1>4, <1>5, <1>6, <1>7, <1>8, <1>9, SetupKept DEF LogInv

\* So is the end of the line.
LEMMA WriteNewlineStep ==
    ASSUME Log!LogAssumption, LogInv, NEW t \in Threads, NEW ok \in BOOLEAN,
           Log!WriteNewline(t, ok)
    PROVE  LogInv'
<1>1. /\ pc[t] = "newline" /\ pc' = [pc EXCEPT ![t] = "append"]
      /\ line' = line /\ lost' = lost /\ ring' = ring /\ appended' = appended
      /\ file' = IF ok THEN Append(file, Log!Newline) ELSE file
      /\ UNCHANGED Log!setup_vars
    BY DEF Log!WriteNewline
<1>2. pc'[t] = "append" /\ \A u \in Threads \ {t} : pc'[u] = pc[u]
    BY <1>1 DEF LogInv, LogTyped
<1>3. file' \in Seq(Loggers \union {Log!Newline})
    BY <1>1 DEF LogInv, LogTyped
<1>4. LogTyped'
    BY <1>1, <1>3 DEF LogInv, LogTyped, Log!setup_vars, Writing
<1>5. Logs(t)
    BY <1>1, <1>2 DEF Logs, Writing
<1>6. Latest(ring, appended)'
    BY <1>1 DEF LogInv, Latest
<1>7. Ordered(file', {"text"}, pc', line')
    BY <1>1, LogShapes, OrderedKept DEF LogInv
<1>8. Ordered(appended', Writing, pc', line')
    BY <1>1, LogShapes, OrderedKept DEF LogInv, Writing
<1>9. Files'
    <2>1. \A k \in DOMAIN file : k \in DOMAIN file' /\ file'[k] = file[k]
        BY <1>1, LogShapes DEF LogInv
    <2>2. \A u \in Threads : pc'[u] \in {"newline", "append"} =>
              pc[u] \in {"newline", "append"}
        BY <1>1, <1>2
    <2>3. QED BY <2>1, <2>2, <1>1 DEF LogInv, Files, InFile, Log!Line, Log!setup_vars
<1>10. QED BY <1>4, <1>5, <1>6, <1>7, <1>8, <1>9, SetupKept DEF LogInv

\* The line goes into the ring, which drops the oldest ones.
LEMMA AppendLineStep ==
    ASSUME Log!LogAssumption, LogInv, NEW t \in Threads, Log!AppendLine(t)
    PROVE  LogInv'
<1>1. /\ pc[t] = "append" /\ pc' = [pc EXCEPT ![t] = "idle"]
      /\ line' = line /\ lost' = lost /\ file' = file
      /\ ring' = Log!Appended(ring, Log!Line(t))
      /\ appended' = Append(appended, Log!Line(t))
      /\ UNCHANGED Log!setup_vars
    BY DEF Log!AppendLine
<1>2. /\ pc'[t] = "idle" /\ \A u \in Threads \ {t} : pc'[u] = pc[u]
      /\ ring \in Seq(Loggers) /\ appended \in Seq(Loggers)
      /\ Latest(ring, appended)
    BY <1>1 DEF LogInv, LogTyped
<1>3. Log!Line(t) \in Loggers
    BY DEF LogInv, LogTyped, Loggers, Log!Line
<1>4. ring' \in Seq(Loggers) /\ Latest(ring', appended')
    BY <1>1, <1>2, <1>3, AppendedLatest
<1>5. appended' \in Seq(Loggers)
    BY <1>1, <1>2, <1>3
<1>6. LogTyped'
    BY <1>1, <1>4, <1>5 DEF LogInv, LogTyped, Log!setup_vars
<1>7. Logs(t)
    BY <1>1, <1>2 DEF Logs, Writing
<1>8. Ordered(file', {"text"}, pc', line')
    BY <1>1, LogShapes, OrderedKept DEF LogInv
<1>9. Ordered(appended', Writing, pc', line')
    BY <1>1, LogShapes, OrderedMore DEF LogInv, Writing, Log!Line
<1>10. Files'
    <2>1. has_file => InFile(Log!Line(t))
        BY <1>1 DEF LogInv, Files
    <2>2. \A i \in DOMAIN appended' : appended'[i] = Log!Line(t)
              \/ (i \in DOMAIN appended /\ appended'[i] = appended[i])
        BY <1>1, <1>2, <1>3
    <2>3. \A u \in Threads : pc'[u] \in {"newline", "append"} =>
              pc[u] \in {"newline", "append"}
        BY <1>1, <1>2
    <2>4. QED BY <2>1, <2>2, <2>3, <1>1 DEF LogInv, Files, InFile, Log!Line, Log!setup_vars
<1>11. QED BY <1>4, <1>6, <1>7, <1>8, <1>9, <1>10, SetupKept DEF LogInv

\* Every step of every thread keeps the invariant.
LEMMA LogSteps == Log!LogAssumption /\ LogInv /\ [Log!Next]_(Log!vars) => LogInv'
<1> SUFFICES ASSUME Log!LogAssumption, LogInv, [Log!Next]_(Log!vars) PROVE LogInv'
    OBVIOUS
<1>1. ASSUME NEW t \in Threads, NEW b \in BOOLEAN,
             \/ Log!Prepare(t, b) \/ Log!BuilderInit(t, b)
             \/ Log!WriteText(t, b) \/ Log!WriteNewline(t, b)
      PROVE  LogInv'
    BY <1>1, PrepareStep, BuilderInitStep, WriteTextStep, WriteNewlineStep
<1>2. ASSUME NEW t \in Threads,
             \/ Log!StoreWeak(t) \/ Log!FallBack(t) \/ Log!InitLog(t)
             \/ Log!BeginLine(t) \/ Log!AppendLine(t)
      PROVE  LogInv'
    BY <1>2, StoreWeakStep, FallBackStep, InitLogStep, BeginLineStep, AppendLineStep
<1>3. CASE UNCHANGED Log!vars
    BY <1>3 DEF Log!vars, LogInv, LogTyped, Installs, LogsNothing, Latest, Files, InFile,
                Log!Line
<1>4. CASE Log!Done
    BY <1>3, <1>4 DEF Log!Done
<1>5. QED BY <1>1, <1>2, <1>3, <1>4 DEF Log!Next

\* However calls of setup_log and init_log race, those that return Ok have the
\* logger that is installed (logger/src/lib.rs, setup_log, or_else); and
\* whatever threads log, the ring has the latest lines, after the file has
\* them, those of a thread in order (rotating.rs, append).
LEMMA LoggersFromInv == Log!LogAssumption /\ LogInv => Log!LoggersAgree
<1> SUFFICES ASSUME Log!LogAssumption, LogInv PROVE Log!LoggersAgree
    OBVIOUS
<1>1. Log!OneLogger
    BY DEF LogInv, Installs, Log!OneLogger
<1>2. Len(appended) \in Nat /\ LOG_SIZE \in Nat \ {0}
    BY DEF LogInv, LogTyped, Log!LogAssumption
<1>3. Log!Min({LOG_SIZE, Len(appended)}) =
          IF Len(appended) < LOG_SIZE THEN Len(appended) ELSE LOG_SIZE
    BY <1>2 DEF Log!Min
<1>4. Log!RingIsLatest
    BY <1>3 DEF LogInv, Latest, Files, InFile, Ordered, Log!RingIsLatest
<1>5. QED BY <1>1, <1>4 DEF Log!LoggersAgree

\* LoggersAgree, for any threads, a ring of any size and any number of lines:
\* setup_log gives out the one logger, and its ring has the latest lines.
THEOREM OneLoggerLatestLines == Log!Spec => []LoggersAgree
<1>1. Log!Init => LogInv
    BY LogAssumption, LogStart
<1>2. LogInv /\ [Log!Next]_(Log!vars) => LogInv'
    BY LogAssumption, LogSteps
<1>3. LogInv => LoggersAgree
    BY LogAssumption, LoggersFromInv DEF LoggersAgree
<1>4. QED BY <1>1, <1>2, <1>3, PTL DEF Log!Spec

-------------------------------------------------------------------------------
(* AccountDB.                                                              *)

Counts == -MaxRefs .. MaxRefs

\* What all accounts have of a node, with plain keys.
Net(r, n) == Accounts!Surplus(r, n) - Accounts!Missing(r, n)

\* BackingKey and Referenced, by factory and references.
KeyOf(f, a, n) == IF f = Accounts!Mangled THEN Accounts!combine_key(a, n) ELSE n
RefOf(f, r, a, n) == IF f = Accounts!Mangled THEN r[a][n] ELSE Net(r, n)

\* An entry of the backing database with count c has the node, if c > 0.
Slot(e, c, n) ==
    /\ Accounts!Count(e) = c
    /\ e # NoEntry => e \in Accounts!Entry(Nodes) /\ (e.rc > 0 => e.val = n)

AccountTyped ==
    /\ factory \in {Accounts!Mangled, Accounts!Plain}
    /\ refs \in [Addresses -> [Nodes -> Counts]]
    /\ DOMAIN db = Accounts!BackingKeys

AccountInv ==
    /\ AccountTyped
    /\ \A a \in Addresses, n \in Nodes :
         Slot(db[KeyOf(factory, a, n)], RefOf(factory, refs, a, n), n)

\* The exclusive or with one address is undone by itself, and so tells the
\* addresses apart.
LEMMA XorTells ==
    ASSUME NEW k, NEW a, NEW b, Accounts!Bits(k), Accounts!Bits(a), Accounts!Bits(b),
           DOMAIN a = DOMAIN k, DOMAIN b = DOMAIN k,
           Accounts!Xor(k, a) = Accounts!Xor(k, b)
    PROVE  a = b
<1>1. ASSUME NEW i \in DOMAIN k PROVE a[i] = b[i]
    <2>1. /\ k[i] \in {0, 1} /\ a[i] \in {0, 1} /\ b[i] \in {0, 1}
        BY DEF Accounts!Bits
    <2>2. Accounts!Xor(k, a)[i] = (k[i] + a[i]) % 2
          /\ Accounts!Xor(k, b)[i] = (k[i] + b[i]) % 2
        BY DEF Accounts!Xor
    <2>3. (k[i] + a[i]) % 2 = (k[i] + b[i]) % 2
        BY <2>2
    <2>4. QED BY <2>1, <2>3
<1>2. a = [i \in DOMAIN k |-> a[i]] /\ b = [i \in DOMAIN k |-> b[i]]
    BY DEF Accounts!Bits
<1>3. QED BY <1>1, <1>2

\* The keys of an account's nodes are not those of another node, whoever's.
LEMMA KeysDiffer ==
    ASSUME Accounts!AccountAssumption,
           NEW a \in Addresses, NEW b \in Addresses, NEW m \in Nodes, NEW n \in Nodes,
           Accounts!combine_key(a, m) = Accounts!combine_key(b, n)
    PROVE  a = b /\ m = n
<1>1. m = n
    BY DEF Accounts!AccountAssumption
<1>2. n = [prefix |-> n.prefix, rest |-> n.rest]
    BY DEF Accounts!AccountAssumption
<1>3. \A c : Accounts!combine_key(c, n).rest = Accounts!Xor(n.rest, c.rest)
    BY <1>2 DEF Accounts!combine_key
<1>4. Accounts!Xor(n.rest, a.rest) = Accounts!Xor(n.rest, b.rest)
    BY <1>1, <1>3
<1>5. /\ Accounts!Bits(n.rest) /\ Accounts!Bits(a.rest) /\ Accounts!Bits(b.rest)
      /\ DOMAIN a.rest = DOMAIN n.rest /\ DOMAIN b.rest = DOMAIN n.rest
    BY DEF Accounts!AccountAssumption
<1>6. a.rest = b.rest
    BY <1>4, <1>5, XorTells
<1>7. QED BY <1>1, <1>6 DEF Accounts!AccountAssumption

\* The count of a set in the instance is the one of the library.
LEMMA AccountSets ==
    /\ \A S : Accounts!Cardinality(S) = Cardinality(S)
    /\ \A S : Accounts!IsFiniteSet(S) <=> IsFiniteSet(S)
<1>1. \A S : Accounts!Cardinality(S) = Cardinality(S)
    BY DEF Accounts!Cardinality, Cardinality
<1>2. \A S : Accounts!IsFiniteSet(S) <=> IsFiniteSet(S)
    BY DEF Accounts!IsFiniteSet, IsFiniteSet
<1>3. QED BY <1>1, <1>2

\* The steps that counts from 1 up to MaxRefs make up to the numbers f[b].
Up(f) == {x \in Addresses \X (1 .. MaxRefs) : x[2] <= f[x[1]]}

\* There are finitely many of them.
LEMMA UpFinite ==
    ASSUME Accounts!AccountAssumption, NEW f
    PROVE  IsFiniteSet(Up(f))
<1>1. IsFiniteSet(Addresses) /\ MaxRefs \in Nat
    BY AccountSets DEF Accounts!AccountAssumption
<1>2. IsFiniteSet(1 .. MaxRefs)
    BY <1>1, FS_Interval
<1>3. IsFiniteSet(Addresses \X (1 .. MaxRefs))
    BY <1>1, <1>2, FS_Product
<1>4. QED BY <1>3, FS_Subset DEF Up

\* One more at an address that has room: one step more, or none if the number
\* stays below zero.
LEMMA UpOneMore ==
    ASSUME Accounts!AccountAssumption, NEW f \in [Addresses -> Counts], NEW a \in Addresses,
           f[a] < MaxRefs
    PROVE  Cardinality(Up([f EXCEPT ![a] = @ + 1])) =
               Cardinality(Up(f)) + (IF f[a] >= 0 THEN 1 ELSE 0)
<1> DEFINE g == [f EXCEPT ![a] = @ + 1]
           x == <<a, f[a] + 1>>
<1>1. MaxRefs \in Nat /\ \A b \in Addresses : f[b] \in Int
    BY DEF Accounts!AccountAssumption, Counts
<1>2. \A b \in Addresses : g[b] = IF b = a THEN f[b] + 1 ELSE f[b]
    OBVIOUS
<1> HIDE DEF g
<1>3. CASE f[a] >= 0
    <2>1. Up(g) = Up(f) \union {x}
        <3>1. x \in Up(g)
            BY <1>1, <1>2, <1>3 DEF Up
        <3>2. \A y \in Up(f) : y \in Up(g)
            BY <1>1, <1>2 DEF Up
        <3>3. ASSUME NEW y \in Up(g) PROVE y \in Up(f) \union {x}
            <4>1. PICK b \in Addresses, i \in 1 .. MaxRefs : y = <<b, i>> /\ i <= g[b]
                BY <3>3 DEF Up
            <4>2. CASE b = a
                BY <4>1, <4>2, <1>1, <1>2 DEF Up
            <4>3. CASE b # a
                BY <4>1, <4>3, <1>1, <1>2 DEF Up
            <4>4. QED BY <4>2, <4>3
        <3>4. QED BY <3>1, <3>2, <3>3
    <2>2. x \notin Up(f)
        BY <1>1 DEF Up
    <2>3. QED BY <2>1, <2>2, <1>3, UpFinite, FS_AddElement DEF g
<1>4. CASE f[a] < 0
    <2>1. ASSUME NEW y \in Addresses \X (1 .. MaxRefs) PROVE y \in Up(g) <=> y \in Up(f)
        <3>1. PICK b \in Addresses, i \in 1 .. MaxRefs : y = <<b, i>>
            BY <2>1
        <3>2. CASE b = a
            BY <3>1, <3>2, <1>1, <1>2, <1>4 DEF Up
        <3>3. CASE b # a
            BY <3>1, <3>3, <1>1, <1>2 DEF Up
        <3>4. QED BY <3>2, <3>3
    <2>2. Up(g) = Up(f)
        BY <2>1 DEF Up
    <2>3. Cardinality(Up(f)) \in Nat
        BY UpFinite, FS_CardinalityType
    <2>4. QED BY <2>2, <2>3, <1>1, <1>4 DEF g
<1>5. QED BY <1>1, <1>3, <1>4

\* What each account has of a node, and what it lacks.
Of(r, n) == [b \in Addresses |-> r[b][n]]
Neg(r, n) == [b \in Addresses |-> -r[b][n]]

\* The net count is of those that are up less those that are down.
LEMMA NetIs ==
    ASSUME Accounts!AccountAssumption, NEW r \in [Addresses -> [Nodes -> Counts]],
           NEW n \in Nodes
    PROVE  /\ Of(r, n) \in [Addresses -> Counts] /\ Neg(r, n) \in [Addresses -> Counts]
           /\ Cardinality(Up(Of(r, n))) \in Nat /\ Cardinality(Up(Neg(r, n))) \in Nat
           /\ Net(r, n) = Cardinality(Up(Of(r, n))) - Cardinality(Up(Neg(r, n)))
           /\ Net(r, n) \in Int
<1>1. MaxRefs \in Nat
    BY DEF Accounts!AccountAssumption
<1>2. Of(r, n) \in [Addresses -> Counts]
    BY DEF Of
<1>3. Neg(r, n) \in [Addresses -> Counts]
    BY <1>1 DEF Neg, Counts
<1>4. Accounts!Surplus(r, n) = Cardinality(Up(Of(r, n)))
    <2>1. {x \in Addresses \X (1 .. MaxRefs) : x[2] <= r[x[1]][n]} = Up(Of(r, n))
        BY DEF Up, Of
    <2>2. QED BY <2>1, AccountSets DEF Accounts!Surplus
<1>5. Accounts!Missing(r, n) = Cardinality(Up(Neg(r, n)))
    <2>1. {x \in Addresses \X (1 .. MaxRefs) : x[2] <= -r[x[1]][n]} = Up(Neg(r, n))
        BY DEF Up, Neg
    <2>2. QED BY <2>1, AccountSets DEF Accounts!Missing
<1>6. Cardinality(Up(Of(r, n))) \in Nat /\ Cardinality(Up(Neg(r, n))) \in Nat
    BY UpFinite, FS_CardinalityType
<1>7. QED BY <1>2, <1>3, <1>4, <1>5, <1>6 DEF Net

\* s has one reference more of a node by one account than r.
Raised(s, r, a, n) ==
    \A b \in Addresses, m \in Nodes :
        s[b][m] = IF b = a /\ m = n THEN r[b][m] + 1 ELSE r[b][m]

\* Then it has one more of it in all.
LEMMA NetRaised ==
    ASSUME Accounts!AccountAssumption, NEW a \in Addresses, NEW n \in Nodes,
           NEW r \in [Addresses -> [Nodes -> Counts]],
           NEW s \in [Addresses -> [Nodes -> Counts]], Raised(s, r, a, n)
    PROVE  /\ Net(r, n) \in Int /\ Net(s, n) = Net(r, n) + 1
           /\ \A u \in Nodes : u # n => Net(s, u) = Net(r, u)
<1>1. MaxRefs \in Nat /\ \A b \in Addresses, m \in Nodes : r[b][m] \in Counts
    BY DEF Accounts!AccountAssumption
<1>2. \A b \in Addresses, m \in Nodes :
          s[b][m] = IF b = a /\ m = n THEN r[b][m] + 1 ELSE r[b][m]
    BY DEF Raised
<1>3. s[a][n] \in Counts /\ s[a][n] = r[a][n] + 1
    BY <1>2
<1> DEFINE f == Of(r, n)
           g == Neg(r, n)
           g2 == Neg(s, n)
<1>4. f \in [Addresses -> Counts] /\ g \in [Addresses -> Counts]
      /\ g2 \in [Addresses -> Counts]
    BY NetIs
<1>5. Of(s, n) = [f EXCEPT ![a] = @ + 1]
    BY <1>2 DEF Of
<1>6. g = [g2 EXCEPT ![a] = @ + 1]
    <2>1. \A b \in Addresses : g2[b] = IF b = a THEN -(r[a][n] + 1) ELSE -r[b][n]
        BY <1>2 DEF Neg
    <2>2. \A b \in Addresses : g[b] = IF b = a THEN g2[b] + 1 ELSE g2[b]
        BY <2>1, <1>1 DEF Neg, Counts
    <2>3. QED BY <2>2, <1>4
<1>7. f[a] = r[a][n] /\ g2[a] = -(r[a][n] + 1) /\ r[a][n] \in Int
    BY <1>1, <1>2 DEF Of, Neg, Counts
<1>8. g2[a] < MaxRefs /\ f[a] < MaxRefs
    BY <1>1, <1>3, <1>7 DEF Counts
<1> HIDE DEF f, g, g2
<1>9. Cardinality(Up([f EXCEPT ![a] = @ + 1])) =
          Cardinality(Up(f)) + (IF f[a] >= 0 THEN 1 ELSE 0)
    BY <1>4, <1>8, UpOneMore
<1>10. Cardinality(Up([g2 EXCEPT ![a] = @ + 1])) =
          Cardinality(Up(g2)) + (IF g2[a] >= 0 THEN 1 ELSE 0)
    BY <1>4, <1>8, UpOneMore
<1>11. Net(s, n) = Net(r, n) + 1
    <2>1. /\ Net(r, n) = Cardinality(Up(f)) - Cardinality(Up(g))
          /\ Net(s, n) = Cardinality(Up([f EXCEPT ![a] = @ + 1])) - Cardinality(Up(g2))
        BY <1>5, NetIs DEF f, g, g2
    <2>2. Cardinality(Up(f)) \in Nat /\ Cardinality(Up(g2)) \in Nat
        BY NetIs DEF f, g2
    <2>3. Cardinality(Up(g)) = Cardinality(Up(g2)) + (IF g2[a] >= 0 THEN 1 ELSE 0)
        BY <1>6, <1>10
    <2>4. CASE r[a][n] >= 0
        BY <2>1, <2>2, <2>3, <2>4, <1>7, <1>9
    <2>5. CASE r[a][n] < 0
        BY <2>1, <2>2, <2>3, <2>5, <1>7, <1>9
    <2>6. QED BY <2>4, <2>5, <1>7
<1>12. ASSUME NEW m \in Nodes, m # n PROVE Net(s, m) = Net(r, m)
    <2>1. Of(s, m) = Of(r, m) /\ Neg(s, m) = Neg(r, m)
        BY <1>2, <1>12 DEF Of, Neg
    <2>2. /\ Net(r, m) = Cardinality(Up(Of(r, m))) - Cardinality(Up(Neg(r, m)))
          /\ Net(s, m) = Cardinality(Up(Of(s, m))) - Cardinality(Up(Neg(s, m)))
        BY NetIs
    <2>3. QED BY <2>1, <2>2
<1>13. QED BY <1>11, <1>12, NetIs

\* emplace and remove count, and what is there is the node.
LEMMA SlotMoves ==
    ASSUME Accounts!AccountAssumption, NEW e, NEW c \in Int, NEW n \in Nodes, Slot(e, c, n)
    PROVE  /\ Slot(Accounts!EmplaceEntry(e, n), c + 1, n)
           /\ Slot(Accounts!RemoveEntry(e), c - 1, n)
<1>1. \A v \in Nodes \union {NoValue}, i \in Int :
          [val |-> v, rc |-> i] \in Accounts!Entry(Nodes) /\ [val |-> v, rc |-> i] # NoEntry
    BY DEF Accounts!AccountAssumption, Accounts!Entry
<1>2. CASE e = NoEntry
    <2>1. c = 0
        BY <1>2 DEF Slot, Accounts!Count
    <2>2. Accounts!EmplaceEntry(e, n) = [val |-> n, rc |-> 1]
          /\ Accounts!RemoveEntry(e) = [val |-> NoValue, rc |-> -1]
        BY <1>2 DEF Accounts!EmplaceEntry, Accounts!RemoveEntry
    <2>3. QED BY <1>1, <2>1, <2>2 DEF Slot, Accounts!Count
<1>3. CASE e # NoEntry
    <2>1. PICK v \in Nodes \union {NoValue}, i \in Int : e = [val |-> v, rc |-> i]
        BY <1>3 DEF Slot, Accounts!Entry
    <2>2. c = i /\ (i > 0 => v = n)
        BY <1>3, <2>1 DEF Slot, Accounts!Count
    <2>3. /\ Accounts!EmplaceEntry(e, n) = [val |-> IF i <= 0 THEN n ELSE v, rc |-> i + 1]
          /\ Accounts!RemoveEntry(e) = [val |-> v, rc |-> i - 1]
        BY <1>3, <2>1 DEF Accounts!EmplaceEntry, Accounts!RemoveEntry
    <2>4. Slot(Accounts!EmplaceEntry(e, n), c + 1, n)
        BY <1>1, <2>2, <2>3 DEF Slot, Accounts!Count
    <2>5. Slot(Accounts!RemoveEntry(e), c - 1, n)
        BY <1>1, <2>2, <2>3 DEF Slot, Accounts!Count
    <2>6. QED BY <2>4, <2>5
<1>4. QED BY <1>2, <1>3

\* Where a key is that of the raised reference its node has one reference more,
\* elsewhere as many as before.
Shared(f, s, r, a, n, b, m) ==
    /\ RefOf(f, r, b, m) \in Int /\ RefOf(f, s, b, m) \in Int
    /\ KeyOf(f, b, m) = KeyOf(f, a, n) =>
           m = n /\ RefOf(f, s, b, m) = RefOf(f, r, b, m) + 1
    /\ KeyOf(f, b, m) # KeyOf(f, a, n) => RefOf(f, s, b, m) = RefOf(f, r, b, m)

\* One reference more concerns the entry of one key, and there all accounts that
\* share it.
LEMMA RefRaised ==
    ASSUME Accounts!AccountAssumption, NEW a \in Addresses, NEW n \in Nodes, NEW f,
           NEW r \in [Addresses -> [Nodes -> Counts]],
           NEW s \in [Addresses -> [Nodes -> Counts]], Raised(s, r, a, n),
           NEW b \in Addresses, NEW m \in Nodes
    PROVE  Shared(f, s, r, a, n, b, m)
<1>1. r[b][m] \in Int /\ s[b][m] \in Int
    BY DEF Accounts!AccountAssumption, Counts
<1>2. s[b][m] = IF b = a /\ m = n THEN r[b][m] + 1 ELSE r[b][m]
    BY DEF Raised
<1>3. Net(r, m) \in Int /\ Net(s, m) \in Int
    BY NetIs
<1>4. /\ m = n => Net(s, m) = Net(r, m) + 1
      /\ m # n => Net(s, m) = Net(r, m)
    <2>1. Net(s, n) = Net(r, n) + 1
        BY NetRaised
    <2>2. \A u \in Nodes : u # n => Net(s, u) = Net(r, u)
        BY NetRaised
    <2>3. CASE m = n
        BY <2>1, <2>3
    <2>4. CASE m # n
        BY <2>2, <2>4
    <2>5. QED BY <2>3, <2>4
<1>5. Accounts!combine_key(b, m) = Accounts!combine_key(a, n) <=> b = a /\ m = n
    BY KeysDiffer
<1>6. CASE f = Accounts!Mangled
    BY <1>1, <1>2, <1>5, <1>6 DEF Shared, KeyOf, RefOf
<1>7. CASE f # Accounts!Mangled
    BY <1>3, <1>4, <1>7 DEF Shared, KeyOf, RefOf
<1>8. QED BY <1>6, <1>7

\* No account has anything, and the table is empty.
LEMMA AccountStart == Accounts!AccountAssumption /\ Accounts!Init => AccountInv
<1> SUFFICES ASSUME Accounts!AccountAssumption, Accounts!Init PROVE AccountInv
    OBVIOUS
<1>1. MaxRefs \in Nat
    BY DEF Accounts!AccountAssumption
<1>2. /\ refs = [a \in Addresses |-> [n \in Nodes |-> 0]]
      /\ db = [k \in Accounts!BackingKeys |-> NoEntry]
      /\ factory \in {Accounts!Mangled, Accounts!Plain}
    BY DEF Accounts!Init, Accounts!EmptyOver
<1>3. AccountTyped
    BY <1>1, <1>2 DEF AccountTyped, Counts
<1>4. ASSUME NEW a \in Addresses, NEW n \in Nodes
      PROVE  KeyOf(factory, a, n) \in Accounts!BackingKeys
    BY DEF KeyOf, Accounts!BackingKeys
<1>5. ASSUME NEW a \in Addresses, NEW n \in Nodes
      PROVE  RefOf(factory, refs, a, n) = 0
    <2>1. Of(refs, n) = Neg(refs, n)
        <3>1. \A b \in Addresses : refs[b] = [u \in Nodes |-> 0]
            BY <1>2
        <3>2. \A b \in Addresses : refs[b][n] = 0
            BY <3>1
        <3>3. \A b \in Addresses : -refs[b][n] = refs[b][n]
            BY <3>2
        <3>4. QED BY <3>3, Zenon DEF Of, Neg
    <2>2. Net(refs, n) = 0
        BY <2>1, <1>3, NetIs DEF AccountTyped
    <2>3. QED BY <2>2, <1>2 DEF RefOf
<1>6. QED BY <1>2, <1>3, <1>4, <1>5 DEF AccountInv, Slot, Accounts!Count

\* insert, emplace and remove, in both factories.
LEMMA AccountStep ==
    ASSUME Accounts!AccountAssumption, AccountInv, NEW a \in Addresses,
           NEW n \in Nodes \union {Accounts!Null},
           Accounts!Insert(a, n) \/ Accounts!Remove(a, n)
    PROVE  AccountInv'
<1>1. CASE n = Accounts!Null
    <2>1. factory' = factory /\ db' = db /\ refs' = refs
        BY <1>1 DEF Accounts!Insert, Accounts!Remove
    <2>2. QED BY <2>1 DEF AccountInv, AccountTyped
<1>2. CASE n # Accounts!Null
    <2> DEFINE k == KeyOf(factory, a, n)
    <2>1. /\ n \in Nodes /\ factory' = factory /\ k = Accounts!BackingKey(a, n)
          /\ MaxRefs \in Nat /\ refs \in [Addresses -> [Nodes -> Counts]]
          /\ DOMAIN db = Accounts!BackingKeys
        BY <1>2 DEF Accounts!Insert, Accounts!Remove, Accounts!BackingKey, KeyOf,
                    AccountInv, AccountTyped, Accounts!AccountAssumption
    <2>2. \A b \in Addresses, m \in Nodes : KeyOf(factory, b, m) \in DOMAIN db
        BY <2>1 DEF KeyOf, Accounts!BackingKeys
    <2>7. k = KeyOf(factory, a, n)
        OBVIOUS
    <2> HIDE DEF k
    <2>3. \A b \in Addresses, m \in Nodes : refs[b][m] \in Int
        BY <2>1 DEF Counts
    <2>4. CASE Accounts!Insert(a, n)
        <3>1. /\ refs[a][n] < MaxRefs /\ refs' = [refs EXCEPT ![a][n] = @ + 1]
              /\ db' = [db EXCEPT ![k] = Accounts!EmplaceEntry(db[k], n)]
            BY <1>2, <2>1, <2>4 DEF Accounts!Insert
        <3>2. Raised(refs', refs, a, n)
            BY <2>1, <3>1 DEF Raised
        <3>3. refs' \in [Addresses -> [Nodes -> Counts]]
            <4>1. refs[a][n] + 1 \in Counts
                BY <2>1, <3>1 DEF Counts
            <4>2. [refs[a] EXCEPT ![n] = refs[a][n] + 1] \in [Nodes -> Counts]
                BY <2>1, <4>1
            <4>3. QED BY <2>1, <3>1, <4>2
        <3>4. AccountTyped'
            BY <2>1, <3>1, <3>3 DEF AccountInv, AccountTyped
        <3>5. ASSUME NEW b \in Addresses, NEW m \in Nodes
              PROVE  Slot(db'[KeyOf(factory, b, m)], RefOf(factory, refs', b, m), m)
            <4>1. Slot(db[KeyOf(factory, b, m)], RefOf(factory, refs, b, m), m)
                BY DEF AccountInv
            <4>2. Shared(factory, refs', refs, a, n, b, m)
                BY <2>1, <3>2, <3>3, RefRaised
            <4>3. CASE KeyOf(factory, b, m) = k
                <5>1. db'[k] = Accounts!EmplaceEntry(db[k], n)
                    BY <2>2, <3>1, <4>3
                <5>2. QED BY <2>1, <2>7, <4>1, <4>2, <4>3, <5>1, SlotMoves DEF Shared
            <4>4. CASE KeyOf(factory, b, m) # k
                BY <2>2, <2>7, <3>1, <4>1, <4>2, <4>4 DEF Shared
            <4>5. QED BY <4>3, <4>4
        <3>6. QED BY <2>1, <3>4, <3>5 DEF AccountInv
    <2>5. CASE Accounts!Remove(a, n)
        <3>1. /\ refs[a][n] > -MaxRefs /\ refs' = [refs EXCEPT ![a][n] = @ - 1]
              /\ db' = [db EXCEPT ![k] = Accounts!RemoveEntry(db[k])]
            BY <1>2, <2>1, <2>5 DEF Accounts!Remove
        <3>2. Raised(refs, refs', a, n)
            BY <2>1, <2>3, <3>1 DEF Raised
        <3>3. refs' \in [Addresses -> [Nodes -> Counts]]
            <4>1. refs[a][n] - 1 \in Counts
                BY <2>1, <3>1 DEF Counts
            <4>2. [refs[a] EXCEPT ![n] = refs[a][n] - 1] \in [Nodes -> Counts]
                BY <2>1, <4>1
            <4>3. QED BY <2>1, <3>1, <4>2
        <3>4. AccountTyped'
            BY <2>1, <3>1, <3>3 DEF AccountInv, AccountTyped
        <3>5. ASSUME NEW b \in Addresses, NEW m \in Nodes
              PROVE  Slot(db'[KeyOf(factory, b, m)], RefOf(factory, refs', b, m), m)
            <4>1. Slot(db[KeyOf(factory, b, m)], RefOf(factory, refs, b, m), m)
                BY DEF AccountInv
            <4>2. Shared(factory, refs, refs', a, n, b, m)
                BY <2>1, <3>2, <3>3, RefRaised
            <4>3. CASE KeyOf(factory, b, m) = k
                <5>1. db'[k] = Accounts!RemoveEntry(db[k])
                    BY <2>2, <3>1, <4>3
                <5>2. RefOf(factory, refs', b, m) = RefOf(factory, refs, b, m) - 1
                    BY <2>7, <4>2, <4>3 DEF Shared
                <5>3. QED BY <2>1, <2>7, <4>1, <4>2, <4>3, <5>1, <5>2, SlotMoves DEF Shared
            <4>4. CASE KeyOf(factory, b, m) # k
                BY <2>2, <2>7, <3>1, <4>1, <4>2, <4>4 DEF Shared
            <4>5. QED BY <4>3, <4>4
        <3>6. QED BY <2>1, <3>4, <3>5 DEF AccountInv
    <2>6. QED BY <2>4, <2>5
<1>3. QED BY <1>1, <1>2

\* What a reader finds under a key follows from its entry.
LEMMA AccountsFromInv ==
    Accounts!AccountAssumption /\ AccountInv => Accounts!AccountsApart
<1> SUFFICES ASSUME Accounts!AccountAssumption, AccountInv, NEW a \in Addresses
             PROVE  /\ Accounts!get(a, Accounts!Null) = Accounts!Null
                    /\ Accounts!contains(a, Accounts!Null)
                    /\ \A n \in Nodes :
                         /\ Accounts!contains(a, n) <=> Accounts!Referenced(a, n) > 0
                         /\ Accounts!get(a, n) =
                                IF Accounts!Referenced(a, n) > 0 THEN n ELSE Accounts!NotFound
                         /\ Accounts!BackingKey(a, n).prefix = n.prefix
    BY DEF Accounts!AccountsApart
<1>1. Accounts!get(a, Accounts!Null) = Accounts!Null /\ Accounts!contains(a, Accounts!Null)
    BY DEF Accounts!get, Accounts!contains
<1>2. ASSUME NEW n \in Nodes
      PROVE  /\ Accounts!contains(a, n) <=> Accounts!Referenced(a, n) > 0
             /\ Accounts!get(a, n) =
                    IF Accounts!Referenced(a, n) > 0 THEN n ELSE Accounts!NotFound
             /\ Accounts!BackingKey(a, n).prefix = n.prefix
    <2> DEFINE e == db[Accounts!BackingKey(a, n)]
               c == Accounts!Referenced(a, n)
    <2>1. n # Accounts!Null
        BY DEF Accounts!AccountAssumption
    <2>2. Slot(e, c, n)
        BY DEF AccountInv, KeyOf, RefOf, Net, Accounts!BackingKey, Accounts!Referenced
    <2> HIDE DEF e, c
    <2>3. /\ Accounts!Contains(e) <=> c > 0
          /\ Accounts!Contains(e) => e.val = n
        BY <2>2 DEF Slot, Accounts!Contains, Accounts!Count
    <2>4. /\ Accounts!contains(a, n) <=> Accounts!Contains(e)
          /\ Accounts!get(a, n) = IF Accounts!Contains(e) THEN e.val ELSE Accounts!NotFound
        BY <2>1 DEF Accounts!contains, Accounts!get, e
    <2>5. Accounts!BackingKey(a, n).prefix = n.prefix
        <3>1. n = [prefix |-> n.prefix, rest |-> n.rest]
            BY DEF Accounts!AccountAssumption
        <3>2. QED BY <3>1 DEF Accounts!BackingKey, Accounts!combine_key
    <2>6. QED BY <2>3, <2>4, <2>5 DEF c
<1>3. QED BY <1>1, <1>2

\* Whatever accounts insert and remove, an account with mangled keys has exactly
\* the nodes it inserted more often than it removed them, also if others have
\* nodes with the same content; with plain keys all share their counts
\* (accounts/src/account_db.rs, combine_key, AccountDB, AccountDBMut).
THEOREM AccountsKeptApart == Accounts!Spec => []AccountsApart
<1>1. Accounts!Init => AccountInv
    BY AccountAssumption, AccountStart
<1>2. AccountInv /\ [Accounts!Next]_(Accounts!vars) => AccountInv'
    <2> SUFFICES ASSUME AccountInv, [Accounts!Next]_(Accounts!vars) PROVE AccountInv'
        OBVIOUS
    <2>1. CASE UNCHANGED Accounts!vars
        BY <2>1 DEF Accounts!vars, AccountInv, AccountTyped
    <2>2. QED BY <2>1, AccountAssumption, AccountStep DEF Accounts!Next
<1>3. AccountInv => AccountsApart
    BY AccountAssumption, AccountsFromInv DEF AccountsApart
<1>4. QED BY <1>1, <1>2, <1>3, PTL DEF Accounts!Spec

-------------------------------------------------------------------------------
(* TrieKinds.  The raw trie has under the raw key of every key what the    *)
(* dictionary has for it.  In a fat trie the auxiliary entry of a key, once *)
(* it is there, is the key: an insertion of the empty value may raise its   *)
(* count for nothing, but a removal lowers it only if the key is there, so  *)
(* that no removal is ever pending, and it is positive if the key is there. *)

\* The raw key of a key, by the kind of the trie.
RawKeyOf(kind, k) == IF kind = Kinds!Generic THEN k ELSE Kinds!blake2b(k)

\* What a fat trie keeps for a key with the value v.
AuxSlot(e, k, v) ==
    /\ e # NoEntry => e.val = k /\ e.rc \in Nat /\ e = [val |-> e.val, rc |-> e.rc]
    /\ v # None => e # NoEntry /\ e.rc > 0

KindsTyped(kind, r, x, c) ==
    /\ DOMAIN r = {RawKeyOf(kind, k) : k \in TrieKeys}
    /\ DOMAIN x = {Kinds!to_aux_key(k) : k \in TrieKeys}
    /\ x = [u \in DOMAIN x |-> x[u]]
    /\ DOMAIN c = TrieKeys

KindsKey(kind, r, x, c, k) ==
    /\ r[RawKeyOf(kind, k)] = c[k]
    /\ kind = Kinds!Fat => AuxSlot(x[Kinds!to_aux_key(k)], k, c[k])

KindsInv ==
    /\ KindsTyped(spec, raw, aux, contents)
    /\ \A k \in TrieKeys : KindsKey(spec, raw, aux, contents, k)

\* Hashes do not collide: no two keys have the same raw key, or the same
\* auxiliary one.
LEMMA RawKeysDiffer ==
    ASSUME NEW kind, NEW k, NEW u, k # u
    PROVE  /\ RawKeyOf(kind, k) # RawKeyOf(kind, u)
           /\ Kinds!to_aux_key(k) # Kinds!to_aux_key(u)
           /\ Kinds!blake2b(k) # Kinds!blake2b(u)
<1>1. ASSUME NEW x, NEW y, Kinds!blake2b(x) = Kinds!blake2b(y) PROVE x = y
    <2>1. [hash_of |-> x].hash_of = [hash_of |-> y].hash_of
        BY <1>1 DEF Kinds!blake2b
    <2>2. QED BY <2>1
<1>2. Kinds!blake2b(k) # Kinds!blake2b(u)
    BY <1>1
<1>3. Kinds!blake2b(Kinds!blake2b(k)) # Kinds!blake2b(Kinds!blake2b(u))
    BY <1>1, <1>2
<1>4. QED BY <1>2, <1>3 DEF RawKeyOf, Kinds!to_aux_key

\* An insertion keeps the key, if there was no value; a removal of a key that is
\* there may leave an entry that counts nothing.
LEMMA AuxMoves ==
    ASSUME Kinds!KindsAssumption, NEW e, NEW k \in TrieKeys, NEW v, AuxSlot(e, k, v)
    PROVE  /\ \A w : AuxSlot(Kinds!EmplaceEntry(e, k), k, w)
           /\ v # None => AuxSlot(Kinds!RemoveEntry(e), k, None)
           /\ v = None => AuxSlot(e, k, None)
           /\ v # None => \A w : AuxSlot(e, k, w)
           /\ v # None => Kinds!Contains(e) /\ e.val = k
<1>1. \A i \in Int : [val |-> k, rc |-> i] # NoEntry
    BY DEF Kinds!KindsAssumption, Kinds!Entry
<1>2. CASE e = NoEntry
    BY <1>1, <1>2 DEF AuxSlot, Kinds!EmplaceEntry
<1>3. CASE e # NoEntry
    <2>1. PICK i \in Nat : e = [val |-> k, rc |-> i]
        BY <1>3 DEF AuxSlot
    <2>2. Kinds!EmplaceEntry(e, k) = [val |-> k, rc |-> i + 1]
        BY <1>3, <2>1 DEF Kinds!EmplaceEntry
    <2>3. Kinds!RemoveEntry(e) = [val |-> k, rc |-> i - 1]
        BY <1>3, <2>1 DEF Kinds!RemoveEntry
    <2>4. \A w : AuxSlot(Kinds!EmplaceEntry(e, k), k, w)
        BY <1>1, <2>2 DEF AuxSlot
    <2>5. v # None => AuxSlot(Kinds!RemoveEntry(e), k, None)
        BY <1>1, <2>1, <2>3 DEF AuxSlot
    <2>6. /\ v = None => AuxSlot(e, k, None)
          /\ v # None => \A w : AuxSlot(e, k, w)
          /\ v # None => Kinds!Contains(e) /\ e.val = k
        BY <2>1, <1>3 DEF AuxSlot, Kinds!Contains, Kinds!Count
    <2>7. QED BY <2>4, <2>5, <2>6
<1>4. QED BY <1>2, <1>3

\* An operation on one key: what the trie has for it becomes w, and y its
\* auxiliary entry; nothing else changes.
LEMMA KindsUpdate ==
    ASSUME NEW kind, NEW r, NEW x, NEW c, KindsTyped(kind, r, x, c),
           \A u \in TrieKeys : KindsKey(kind, r, x, c, u),
           NEW k \in TrieKeys, NEW w, NEW y,
           kind = Kinds!Fat => AuxSlot(y, k, w)
    PROVE  LET r2 == [r EXCEPT ![RawKeyOf(kind, k)] = w]
               x2 == [x EXCEPT ![Kinds!to_aux_key(k)] = y]
               c2 == [c EXCEPT ![k] = w]
           IN  /\ KindsTyped(kind, r2, x2, c2)
               /\ \A u \in TrieKeys : KindsKey(kind, r2, x2, c2, u)
<1> DEFINE r2 == [r EXCEPT ![RawKeyOf(kind, k)] = w]
           x2 == [x EXCEPT ![Kinds!to_aux_key(k)] = y]
           c2 == [c EXCEPT ![k] = w]
<1>1. KindsTyped(kind, r2, x2, c2)
    BY DEF KindsTyped
<1>2. /\ r2[RawKeyOf(kind, k)] = w /\ x2[Kinds!to_aux_key(k)] = y /\ c2[k] = w
      /\ \A u \in TrieKeys : u # k =>
            /\ r2[RawKeyOf(kind, u)] = r[RawKeyOf(kind, u)]
            /\ x2[Kinds!to_aux_key(u)] = x[Kinds!to_aux_key(u)]
            /\ c2[u] = c[u]
    BY RawKeysDiffer DEF KindsTyped
<1> HIDE DEF r2, x2, c2
<1>3. ASSUME NEW u \in TrieKeys PROVE KindsKey(kind, r2, x2, c2, u)
    <2>1. CASE u = k
        BY <1>2, <2>1 DEF KindsKey
    <2>2. CASE u # k
        BY <1>2, <2>2 DEF KindsKey
    <2>3. QED BY <2>1, <2>2
<1>4. QED BY <1>1, <1>3 DEF r2, x2, c2

\* The tries are empty, and so is the dictionary.
LEMMA KindsStart == Kinds!Init => KindsInv
<1> SUFFICES ASSUME Kinds!Init PROVE KindsInv
    OBVIOUS
<1>1. /\ raw = [r \in {RawKeyOf(spec, k) : k \in TrieKeys} |-> None]
      /\ aux = [x \in {Kinds!to_aux_key(k) : k \in TrieKeys} |-> NoEntry]
      /\ contents = [k \in TrieKeys |-> None]
    BY DEF Kinds!Init, Kinds!EmptyOver, Kinds!RawKeys, Kinds!RawKey, RawKeyOf,
           Kinds!to_aux_key
<1>2. QED BY <1>1 DEF KindsInv, KindsTyped, KindsKey, AuxSlot

\* insert, of a value or the empty one, and remove, in every kind of trie.
LEMMA KindsStep ==
    ASSUME Kinds!KindsAssumption, KindsInv, NEW k \in TrieKeys, NEW v,
           Kinds!Insert(k, v) \/ Kinds!Remove(k)
    PROVE  KindsInv'
<1> DEFINE e == aux[Kinds!to_aux_key(k)]
<1>1. /\ KindsTyped(spec, raw, aux, contents)
      /\ \A u \in TrieKeys : KindsKey(spec, raw, aux, contents, u)
    BY DEF KindsInv
<1>2. raw[RawKeyOf(spec, k)] = contents[k] /\ (spec = Kinds!Fat => AuxSlot(e, k, contents[k]))
    BY <1>1 DEF KindsKey
<1>3. Kinds!RawKey(k) = RawKeyOf(spec, k) /\ spec' = spec
      /\ [aux EXCEPT ![Kinds!to_aux_key(k)] = e] = aux
    <2>1. Kinds!RawKey(k) = RawKeyOf(spec, k) /\ spec' = spec
        BY DEF Kinds!RawKey, RawKeyOf, Kinds!Insert, Kinds!Remove
    <2>2. [aux EXCEPT ![Kinds!to_aux_key(k)] = e] = aux
        BY <1>1 DEF KindsTyped
    <2>3. QED BY <2>1, <2>2
<1>4. ASSUME NEW w, NEW y,
             spec = Kinds!Fat => AuxSlot(y, k, w),
             raw' = [raw EXCEPT ![RawKeyOf(spec, k)] = w],
             aux' = [aux EXCEPT ![Kinds!to_aux_key(k)] = y],
             contents' = [contents EXCEPT ![k] = w]
      PROVE  KindsInv'
    <2>1. /\ KindsTyped(spec, raw', aux', contents')
          /\ \A u \in TrieKeys : KindsKey(spec, raw', aux', contents', u)
        BY <1>1, <1>4, KindsUpdate
    <2>2. QED BY <1>3, <2>1 DEF KindsInv
<1>5. CASE Kinds!Insert(k, v)
    <2> DEFINE w == IF v = EmptyValue THEN None ELSE v
               y == IF spec = Kinds!Fat /\ contents[k] = None
                    THEN Kinds!EmplaceEntry(e, k) ELSE e
    <2>1. /\ raw' = [raw EXCEPT ![RawKeyOf(spec, k)] = w]
          /\ contents' = [contents EXCEPT ![k] = w]
          /\ aux' = [aux EXCEPT ![Kinds!to_aux_key(k)] = y]
        BY <1>2, <1>3, <1>5 DEF Kinds!Insert, Kinds!RawInserted, Kinds!Old
    <2>2. spec = Kinds!Fat => AuxSlot(y, k, w)
        BY <1>2, AuxMoves
    <2>3. QED BY <1>4, <2>1, <2>2
<1>6. CASE Kinds!Remove(k)
    <2> DEFINE y == IF spec = Kinds!Fat /\ contents[k] # None
                    THEN Kinds!RemoveEntry(e) ELSE e
    <2>1. /\ raw' = [raw EXCEPT ![RawKeyOf(spec, k)] = None]
          /\ contents' = [contents EXCEPT ![k] = None]
          /\ aux' = [aux EXCEPT ![Kinds!to_aux_key(k)] = y]
        BY <1>2, <1>3, <1>6 DEF Kinds!Remove, Kinds!RemovesAux, Kinds!Old
    <2>2. spec = Kinds!Fat => AuxSlot(y, k, None)
        BY <1>2, AuxMoves
    <2>3. QED BY <1>4, <2>1, <2>2
<1>7. QED BY <1>5, <1>6

\* What an iterator of a trie shows of a raw key is the key behind it, but in a
\* secure trie.
LEMMA KindsFromInv == Kinds!KindsAssumption /\ KindsInv /\ spec \in {Kinds!Generic, Kinds!Secure, Kinds!Fat}
                      => Kinds!KindsAgree
<1> SUFFICES ASSUME Kinds!KindsAssumption, KindsInv,
                    spec \in {Kinds!Generic, Kinds!Secure, Kinds!Fat}
             PROVE  Kinds!KindsAgree
    OBVIOUS
<1>1. /\ DOMAIN raw = {RawKeyOf(spec, k) : k \in TrieKeys}
      /\ \A k \in TrieKeys : raw[RawKeyOf(spec, k)] = contents[k]
      /\ \A k \in TrieKeys : Kinds!get(k) = raw[RawKeyOf(spec, k)]
    BY DEF KindsInv, KindsTyped, KindsKey, Kinds!get, Kinds!RawKey, RawKeyOf
<1> DEFINE Shown(k) == IF spec = Kinds!Secure THEN Kinds!blake2b(k) ELSE k
<1>2. ASSUME NEW k \in TrieKeys, contents[k] # None
      PROVE  Kinds!ItemKey(RawKeyOf(spec, k)) = Shown(k)
    <2>1. CASE spec = Kinds!Fat
        <3>1. AuxSlot(aux[Kinds!to_aux_key(k)], k, contents[k])
            BY <2>1 DEF KindsInv, KindsKey
        <3>2. Kinds!Contains(aux[Kinds!to_aux_key(k)]) /\ aux[Kinds!to_aux_key(k)].val = k
            BY <1>2, <3>1, AuxMoves
        <3>3. Kinds!blake2b(RawKeyOf(spec, k)) = Kinds!to_aux_key(k)
            BY <2>1 DEF RawKeyOf, Kinds!to_aux_key, Kinds!Fat, Kinds!Generic
        <3>4. QED BY <2>1, <3>2, <3>3
                  DEF Kinds!ItemKey, Kinds!is_fat, Kinds!Fat, Kinds!Secure
    <2>2. CASE spec # Kinds!Fat
        BY <2>2 DEF Kinds!ItemKey, Kinds!is_fat, RawKeyOf, Kinds!Generic, Kinds!Secure
    <2>3. QED BY <2>1, <2>2
<1>3. Kinds!is_empty <=> \A k \in TrieKeys : contents[k] = None
    BY <1>1 DEF Kinds!is_empty
<1>4. Kinds!iter = {<<Shown(k), contents[k]>> : k \in {k \in TrieKeys : contents[k] # None}}
    <2>1. ASSUME NEW r \in DOMAIN raw, raw[r] # None
          PROVE  \E k \in {k \in TrieKeys : contents[k] # None} :
                    <<Kinds!ItemKey(r), raw[r]>> = <<Shown(k), contents[k]>>
        <3>1. PICK k \in TrieKeys : r = RawKeyOf(spec, k)
            BY <1>1
        <3>2. QED BY <1>1, <1>2, <2>1, <3>1
    <2>2. ASSUME NEW k \in TrieKeys, contents[k] # None
          PROVE  \E r \in {r \in DOMAIN raw : raw[r] # None} :
                    <<Kinds!ItemKey(r), raw[r]>> = <<Shown(k), contents[k]>>
        BY <1>1, <1>2, <2>2
    <2> HIDE DEF Shown
    <2>3. QED BY <2>1, <2>2 DEF Kinds!iter
<1>5. QED BY <1>1, <1>3, <1>4 DEF Kinds!KindsAgree, Kinds!contains

\* In every kind of trie, whatever is inserted and removed, readers see the
\* dictionary, and an iterator of a fat trie never misses the key behind a hash
\* (patricia_trie/src/lib.rs, fatdb.rs, fatdbmut.rs, sectriedb.rs, sectriedbmut.rs).
THEOREM KindsOfTriesAgree == Kinds!Spec => []KindsAgree
<1> DEFINE Inv == KindsInv /\ spec \in {Kinds!Generic, Kinds!Secure, Kinds!Fat}
<1>1. Kinds!Init => Inv
    BY KindsStart DEF Kinds!Init
<1>2. Inv /\ [Kinds!Next]_(Kinds!vars) => Inv'
    <2> SUFFICES ASSUME Inv, [Kinds!Next]_(Kinds!vars) PROVE Inv'
        OBVIOUS
    <2>1. CASE UNCHANGED Kinds!vars
        BY <2>1 DEF Kinds!vars, KindsInv
    <2>2. ASSUME NEW k \in TrieKeys, Kinds!Remove(k) PROVE Inv'
        BY <2>2, KindsAssumption, KindsStep DEF Kinds!Remove
    <2>3. ASSUME NEW k \in TrieKeys, NEW v, Kinds!Insert(k, v) PROVE Inv'
        BY <2>3, KindsAssumption, KindsStep DEF Kinds!Insert
    <2>4. QED BY <2>1, <2>2, <2>3 DEF Kinds!Next
<1>3. Inv => KindsAgree
    BY KindsAssumption, KindsFromInv DEF KindsAgree
<1> HIDE DEF Inv
<1>4. QED BY <1>1, <1>2, <1>3, PTL DEF Kinds!Spec

-------------------------------------------------------------------------------
(* NodeStorage.  The handles that are held outside of the arena, by the    *)
(* calls under way, the root or a commit, and those that every slot has,   *)
(* also one that is left behind, are all different and of slots in use.    *)

ArenaNode == [tag : {"New", "Cached"}, children : SUBSET Nat, hashes : Int]

Live(s) == {h \in 1 .. Len(s.nodes) : \A i \in 1 .. Len(s.free) : s.free[i] # h}

ArenaTyped(s) ==
    /\ s.nodes \in Seq(ArenaNode) /\ s.free \in Seq(Nat)
    /\ \A i \in 1 .. Len(s.free) : s.free[i] \in 1 .. Len(s.nodes)
    /\ \A i, j \in 1 .. Len(s.free) : s.free[i] = s.free[j] => i = j

\* An arena in which U is held.
Sound(s, U) ==
    /\ ArenaTyped(s)
    /\ U \subseteq Live(s)
    /\ \A i \in 1 .. Len(s.nodes) : \A h \in s.nodes[i].children :
          h \in Live(s) /\ h \notin U
          /\ \A j \in 1 .. Len(s.nodes) : h \in s.nodes[j].children => i = j

\* Calls under way that hold U.
Stack(g, U) ==
    /\ g \in Seq(ArenaNode)
    /\ U = UNION {g[i].children : i \in 1 .. Len(g)}
    /\ \A i, j \in 1 .. Len(g) : i # j => g[i].children \intersect g[j].children = {}

ArenaInv ==
    /\ failed \in BOOLEAN /\ (hand # <<>> => committing = {})
    /\ failed => hand = <<>> /\ committing = {}
    /\ ~failed =>
         /\ hand # <<>> => \E U : Stack(hand, U) /\ Sound(storage, U)
         /\ hand = <<>> => Sound(storage, committing \union ({root_handle} \ {Arena!OnDisk}))
         /\ committing # {} => root_handle = Arena!OnDisk

\* destroy: who held the slot holds what the slot held.
LEMMA SlotDestroyed ==
    ASSUME NEW s, NEW U, Sound(s, U), NEW h \in U
    PROVE  /\ s.nodes[h] \in ArenaNode /\ s.nodes[h].children \intersect U = {}
           /\ Sound(Arena!destroy(s, h), (U \ {h}) \union s.nodes[h].children)
<1>1. /\ s.nodes \in Seq(ArenaNode) /\ s.free \in Seq(Nat)
      /\ h \in 1 .. Len(s.nodes) /\ h \in Nat /\ h \in Live(s)
    BY DEF Sound, ArenaTyped, Live
<1>2. s.nodes[h] \in ArenaNode /\ s.nodes[h].children \intersect U = {}
    BY <1>1 DEF Sound
<1> DEFINE t == Arena!destroy(s, h)
<1>3. /\ t.nodes \in Seq(ArenaNode) /\ Len(t.nodes) = Len(s.nodes)
      /\ t.nodes[h].children = {}
      /\ \A i \in 1 .. Len(s.nodes) : i # h => t.nodes[i] = s.nodes[i]
    <2>1. Arena!EmptyNode \in ArenaNode /\ Arena!EmptyNode.children = {}
        BY DEF Arena!EmptyNode, Arena!Stored, ArenaNode
    <2>2. t.nodes = [s.nodes EXCEPT ![h] = Arena!EmptyNode]
        BY DEF Arena!destroy
    <2>3. QED BY <1>1, <2>1, <2>2
<1>4. /\ t.free \in Seq(Nat) /\ Len(t.free) = Len(s.free) + 1
      /\ t.free[Len(s.free) + 1] = h
      /\ \A i \in 1 .. Len(s.free) : t.free[i] = s.free[i]
    <2>1. t.free = Append(s.free, h)
        BY DEF Arena!destroy
    <2>2. QED BY <1>1, <2>1
<1> HIDE DEF t
<1>5. Len(s.free) \in Nat /\ Len(s.nodes) \in Nat
    BY <1>1
<1>6. ArenaTyped(t)
    <2>1. /\ \A i \in 1 .. Len(s.free) : s.free[i] \in 1 .. Len(s.nodes) /\ s.free[i] # h
          /\ \A i, j \in 1 .. Len(s.free) : s.free[i] = s.free[j] => i = j
        BY <1>1 DEF ArenaTyped, Sound, Live
    <2>2. \A i \in 1 .. Len(t.free) : i \in 1 .. Len(s.free) \/ i = Len(s.free) + 1
        BY <1>4, <1>5
    <2>3. \A i \in 1 .. Len(t.free) : t.free[i] \in 1 .. Len(t.nodes)
        BY <1>1, <1>3, <1>4, <2>1, <2>2
    <2>4. \A i, j \in 1 .. Len(t.free) : t.free[i] = t.free[j] => i = j
        BY <1>4, <2>1, <2>2
    <2>5. QED BY <1>3, <1>4, <2>3, <2>4 DEF ArenaTyped
<1>7. Live(t) = Live(s) \ {h}
    <2>1. ASSUME NEW g \in 1 .. Len(s.nodes)
          PROVE  (\A i \in 1 .. Len(t.free) : t.free[i] # g)
                 <=> (\A i \in 1 .. Len(s.free) : s.free[i] # g) /\ g # h
        <3>1. \A i \in 1 .. Len(t.free) : i \in 1 .. Len(s.free) \/ i = Len(s.free) + 1
            BY <1>4, <1>5
        <3>2. /\ \A i \in 1 .. Len(s.free) : i \in 1 .. Len(t.free)
              /\ Len(s.free) + 1 \in 1 .. Len(t.free)
            BY <1>4, <1>5
        <3>3. QED BY <1>4, <3>1, <3>2
    <2>2. QED BY <1>3, <2>1 DEF Live
<1>8. ASSUME NEW i \in 1 .. Len(s.nodes), NEW x \in t.nodes[i].children
      PROVE  /\ x \in Live(t) /\ x \notin (U \ {h}) \union s.nodes[h].children
             /\ \A j \in 1 .. Len(s.nodes) : x \in t.nodes[j].children => i = j
    <2>1. i # h /\ x \in s.nodes[i].children
        BY <1>3, <1>8
    <2>2. x \in Live(s) /\ x \notin U /\ x \notin s.nodes[h].children
        BY <1>1, <2>1 DEF Sound
    <2>3. \A j \in 1 .. Len(s.nodes) : x \in t.nodes[j].children => i = j
        BY <1>3, <2>1 DEF Sound
    <2>4. QED BY <1>7, <2>2, <2>3
<1>9. (U \ {h}) \union s.nodes[h].children \subseteq Live(t)
    BY <1>1, <1>2, <1>7 DEF Sound
<1>10. Sound(t, (U \ {h}) \union s.nodes[h].children)
    BY <1>3, <1>6, <1>8, <1>9 DEF Sound
<1>11. QED BY <1>2, <1>10 DEF t

\* alloc: handles that were held are in the slot now, whose handle nobody had.
LEMMA SlotAllocated ==
    ASSUME NEW s, NEW U, Sound(s, U), NEW x \in ArenaNode, x.children \subseteq U
    PROVE  /\ Arena!handle(s) \in Nat \ {0} /\ Arena!handle(s) \notin U
           /\ Arena!alloc(s, x).nodes[Arena!handle(s)] = x
           /\ Sound(Arena!alloc(s, x), (U \ x.children) \union {Arena!handle(s)})
<1> DEFINE t == Arena!alloc(s, x)
           h == Arena!handle(s)
<1>1. /\ s.nodes \in Seq(ArenaNode) /\ s.free \in Seq(Nat)
      /\ Len(s.nodes) \in Nat /\ Len(s.free) \in Nat
    BY DEF Sound, ArenaTyped
<1>2. /\ t.nodes \in Seq(ArenaNode) /\ h \in 1 .. Len(t.nodes) /\ h \notin Live(s)
      /\ t.nodes[h] = x
      /\ Len(s.nodes) <= Len(t.nodes)
      /\ \A i \in 1 .. Len(t.nodes) : i # h => i \in 1 .. Len(s.nodes) /\ t.nodes[i] = s.nodes[i]
      /\ t.free \in Seq(Nat) /\ ArenaTyped(t) /\ Live(t) = Live(s) \union {h}
    <2>1. CASE s.free = <<>>
        <3>1. h = Len(s.nodes) + 1 /\ t.nodes = Append(s.nodes, x) /\ t.free = <<>>
            BY <2>1 DEF Arena!alloc, Arena!handle, Arena!FreeLeft
        <3>2. /\ t.nodes \in Seq(ArenaNode) /\ Len(t.nodes) = Len(s.nodes) + 1
              /\ t.nodes[h] = x
              /\ \A i \in 1 .. Len(s.nodes) : t.nodes[i] = s.nodes[i]
            BY <1>1, <3>1
        <3>3. Len(s.free) = 0 /\ Len(t.free) = 0 /\ t.free \in Seq(Nat)
            BY <2>1, <3>1
        <3> HIDE DEF t, h
        <3>4. Live(t) = Live(s) \union {h} /\ h \notin Live(s)
            BY <1>1, <3>1, <3>2, <3>3 DEF Live
        <3>5. ArenaTyped(t)
            BY <3>2, <3>3 DEF ArenaTyped
        <3>6. QED BY <1>1, <3>1, <3>2, <3>3, <3>4, <3>5
    <2>2. CASE s.free # <<>>
        <3>1. h = s.free[1] /\ t.nodes = [s.nodes EXCEPT ![h] = x] /\ t.free = Tail(s.free)
            BY <2>2 DEF Arena!alloc, Arena!handle, Arena!FreeLeft
        <3>2. Len(s.free) >= 1
            BY <1>1, <2>2
        <3>3. h \in 1 .. Len(s.nodes) /\ h \notin Live(s)
            BY <1>1, <3>1, <3>2 DEF Sound, ArenaTyped, Live
        <3>4. /\ t.nodes \in Seq(ArenaNode) /\ Len(t.nodes) = Len(s.nodes)
              /\ t.nodes[h] = x
              /\ \A i \in 1 .. Len(s.nodes) : i # h => t.nodes[i] = s.nodes[i]
            BY <1>1, <3>1, <3>3
        <3>5. /\ t.free \in Seq(Nat) /\ Len(t.free) = Len(s.free) - 1
              /\ \A i \in 1 .. Len(t.free) : t.free[i] = s.free[i + 1]
            BY <1>1, <3>1, <3>2
        <3>6. \A i, j \in 1 .. Len(s.free) : s.free[i] = s.free[j] => i = j
            BY DEF Sound, ArenaTyped
        <3>7. \A i \in 1 .. Len(s.free) : s.free[i] \in 1 .. Len(s.nodes)
            BY DEF Sound, ArenaTyped
        <3> HIDE DEF t, h
        <3>8. ArenaTyped(t)
            <4>1. \A i \in 1 .. Len(t.free) : i + 1 \in 1 .. Len(s.free)
                BY <1>1, <3>5
            <4>2. \A i \in 1 .. Len(t.free) : t.free[i] \in 1 .. Len(t.nodes)
                BY <3>4, <3>5, <3>7, <4>1
            <4>3. \A i, j \in 1 .. Len(t.free) : t.free[i] = t.free[j] => i = j
                BY <3>5, <3>6, <4>1
            <4>4. QED BY <3>4, <3>5, <4>2, <4>3 DEF ArenaTyped
        <3>9. Live(t) = Live(s) \union {h}
            <4>1. \A i \in 1 .. Len(t.free) : t.free[i] # h
                <5>1. \A i \in 1 .. Len(t.free) : i + 1 \in 1 .. Len(s.free) /\ i + 1 # 1
                    BY <1>1, <3>5
                <5>2. 1 \in 1 .. Len(s.free)
                    BY <1>1, <3>2
                <5>3. QED BY <3>1, <3>5, <3>6, <5>1, <5>2
            <4>2. \A g \in 1 .. Len(s.nodes) : g # h =>
                     ((\A i \in 1 .. Len(s.free) : s.free[i] # g)
                      <=> (\A i \in 1 .. Len(t.free) : t.free[i] # g))
                <5>1. \A i \in 1 .. Len(s.free) : i # 1 => i - 1 \in 1 .. Len(t.free)
                    BY <1>1, <3>5
                <5>2. \A i \in 1 .. Len(s.free) : i # 1 => s.free[i] = t.free[i - 1]
                    BY <1>1, <3>5, <5>1
                <5>3. \A i \in 1 .. Len(t.free) : i + 1 \in 1 .. Len(s.free)
                    BY <1>1, <3>5
                <5>4. ASSUME NEW g, g # h, \A i \in 1 .. Len(t.free) : t.free[i] # g,
                             NEW i \in 1 .. Len(s.free)
                      PROVE  s.free[i] # g
                    <6>1. CASE i = 1
                        BY <3>1, <5>4, <6>1
                    <6>2. CASE i # 1
                        BY <5>1, <5>2, <5>4, <6>2
                    <6>3. QED BY <6>1, <6>2
                <5>5. ASSUME NEW g, \A i \in 1 .. Len(s.free) : s.free[i] # g,
                             NEW i \in 1 .. Len(t.free)
                      PROVE  t.free[i] # g
                    BY <3>5, <5>3, <5>5
                <5>6. QED BY <5>4, <5>5
            <4>3. \A g \in 1 .. Len(s.nodes) : g \in Live(t) <=> g \in Live(s) \/ g = h
                BY <3>3, <3>4, <4>1, <4>2 DEF Live
            <4>4. Live(t) \subseteq 1 .. Len(s.nodes) /\ Live(s) \subseteq 1 .. Len(s.nodes)
                BY <3>4 DEF Live
            <4>5. QED BY <3>3, <4>3, <4>4
        <3>10. /\ h \in 1 .. Len(t.nodes) /\ Len(s.nodes) <= Len(t.nodes)
               /\ \A i \in 1 .. Len(t.nodes) :
                     i # h => i \in 1 .. Len(s.nodes) /\ t.nodes[i] = s.nodes[i]
            BY <1>1, <3>3, <3>4
        <3>11. QED BY <3>3, <3>4, <3>5, <3>8, <3>9, <3>10
    <2>3. QED BY <2>1, <2>2
<1> HIDE DEF t, h
<1>3. h \in Nat \ {0} /\ h \notin U
    BY <1>2 DEF Sound
<1>4. ASSUME NEW i \in 1 .. Len(t.nodes), NEW y \in t.nodes[i].children
      PROVE  /\ y \in Live(s) /\ y \notin U \ x.children
             /\ \A j \in 1 .. Len(t.nodes) : y \in t.nodes[j].children => i = j
    <2>1. CASE i = h
        <3>1. y \in U /\ y \in x.children
            BY <1>2, <1>4, <2>1
        <3>2. \A j \in 1 .. Len(s.nodes) : y \notin s.nodes[j].children
            BY <3>1 DEF Sound
        <3>3. QED BY <1>2, <2>1, <3>1, <3>2 DEF Sound
    <2>2. CASE i # h
        <3>1. i \in 1 .. Len(s.nodes) /\ y \in s.nodes[i].children
            BY <1>2, <1>4, <2>2
        <3>2. y \in Live(s) /\ y \notin U
              /\ \A j \in 1 .. Len(s.nodes) : y \in s.nodes[j].children => i = j
            BY <3>1 DEF Sound
        <3>3. y \notin t.nodes[h].children
            BY <1>2, <3>2
        <3>4. QED BY <1>2, <3>2, <3>3
    <2>3. QED BY <2>1, <2>2
<1>5. Sound(t, (U \ x.children) \union {h})
    <2>1. (U \ x.children) \union {h} \subseteq Live(t)
        BY <1>2 DEF Sound
    <2>2. \A i \in 1 .. Len(t.nodes) : \A y \in t.nodes[i].children :
             /\ y \in Live(t) /\ y \notin (U \ x.children) \union {h}
             /\ \A j \in 1 .. Len(t.nodes) : y \in t.nodes[j].children => i = j
        BY <1>2, <1>4
    <2>3. QED BY <1>2, <2>1, <2>2 DEF Sound
<1>6. QED BY <1>2, <1>3, <1>5 DEF t, h

\* Handles may be dropped: a commit leaves slots without one.
LEMMA SlotsDropped == ASSUME NEW s, NEW U, Sound(s, U), NEW V \in SUBSET U PROVE Sound(s, V)
BY DEF Sound

\* cache, and taking the node out again at once: what is held is what was held and
\* the children of the node.
LEMMA SlotsLoaded ==
    ASSUME NEW s, NEW U, Sound(s, U), NEW l \in Arena!Loads(s)
    PROVE  /\ l.stored \in ArenaNode /\ l.stored.children \intersect U = {}
           /\ Sound(l.storage, U \union l.stored.children)
<1> DEFINE Out(t, x) == [storage |-> Arena!destroy(Arena!alloc(t, x), Arena!handle(t)),
                         stored |-> x]
<1>1. ASSUME NEW t, NEW V, Sound(t, V), NEW x \in ArenaNode, x.children \subseteq V
      PROVE  Sound(Arena!destroy(Arena!alloc(t, x), Arena!handle(t)), V)
    <2> DEFINE a == Arena!alloc(t, x)
               h == Arena!handle(t)
    <2>1. /\ h \notin V /\ a.nodes[h] = x /\ Sound(a, (V \ x.children) \union {h})
        BY <1>1, SlotAllocated
    <2> HIDE DEF a, h
    <2>2. Sound(Arena!destroy(a, h), (((V \ x.children) \union {h}) \ {h}) \union a.nodes[h].children)
        BY <2>1, SlotDestroyed
    <2>3. (((V \ x.children) \union {h}) \ {h}) \union a.nodes[h].children = V
        BY <1>1, <2>1
    <2>4. Sound(Arena!destroy(a, h), V)
        BY <2>2, <2>3
    <2>5. QED BY <2>4 DEF a, h
<1>2. ASSUME NEW n \in 0 .. 1, l = Out(s, Arena!Stored("Cached", {}, n))
      PROVE  /\ l.stored \in ArenaNode /\ l.stored.children \intersect U = {}
             /\ Sound(l.storage, U \union l.stored.children)
    <2> DEFINE x == Arena!Stored("Cached", {}, n)
    <2>1. x \in ArenaNode /\ x.children = {}
        BY DEF Arena!Stored, ArenaNode
    <2>2. l.stored = x
          /\ l.storage = Arena!destroy(Arena!alloc(s, x), Arena!handle(s))
        BY <1>2
    <2> HIDE DEF x
    <2>3. Sound(l.storage, U)
        BY <1>1, <2>1, <2>2
    <2>4. U \union l.stored.children = U
        BY <2>1, <2>2
    <2>5. QED BY <2>1, <2>2, <2>3, <2>4
<1>3. ASSUME l = Out(Arena!alloc(s, Arena!EmptyNode),
                     Arena!Stored("Cached", {Arena!handle(s)}, 0))
      PROVE  /\ l.stored \in ArenaNode /\ l.stored.children \intersect U = {}
             /\ Sound(l.storage, U \union l.stored.children)
    <2> DEFINE t == Arena!alloc(s, Arena!EmptyNode)
               h == Arena!handle(s)
               x == Arena!Stored("Cached", {h}, 0)
    <2>1. Arena!EmptyNode \in ArenaNode /\ Arena!EmptyNode.children = {}
        BY DEF Arena!EmptyNode, Arena!Stored, ArenaNode
    <2>2. h \in Nat \ {0} /\ h \notin U /\ Sound(t, (U \ {}) \union {h})
        BY <2>1, SlotAllocated
    <2>3. x \in ArenaNode /\ x.children = {h}
        BY <2>2 DEF Arena!Stored, ArenaNode
    <2>4. l.stored = x
          /\ l.storage = Arena!destroy(Arena!alloc(t, x), Arena!handle(t))
        BY <1>3
    <2> HIDE DEF x, t, h
    <2>5. Sound(t, U \union {h})
        <3>1. (U \ {}) \union {h} = U \union {h}
            OBVIOUS
        <3>2. QED BY <2>2, <3>1
    <2>6. Sound(l.storage, U \union {h})
        BY <1>1, <2>3, <2>4, <2>5
    <2>7. QED BY <2>2, <2>3, <2>4, <2>6
<1>4. QED BY <1>2, <1>3 DEF Arena!Loads

\* A call that begins has handles that no other has.
LEMMA StackPushed ==
    ASSUME NEW g, NEW U, Stack(g, U), NEW x \in ArenaNode, x.children \intersect U = {}
    PROVE  Stack(Append(g, x), U \union x.children)
<1> DEFINE f == Append(g, x)
<1>1. /\ f \in Seq(ArenaNode) /\ Len(g) \in Nat /\ Len(f) = Len(g) + 1
      /\ f[Len(g) + 1] = x /\ \A i \in 1 .. Len(g) : f[i] = g[i]
    BY DEF Stack
<1> HIDE DEF f
<1>2. /\ \A i \in 1 .. Len(f) : i \in 1 .. Len(g) \/ i = Len(g) + 1
      /\ \A i \in 1 .. Len(g) : i \in 1 .. Len(f)
      /\ Len(g) + 1 \in 1 .. Len(f)
    BY <1>1
<1>3. U \union x.children = UNION {f[i].children : i \in 1 .. Len(f)}
    <2>1. ASSUME NEW y \in U PROVE \E i \in 1 .. Len(f) : y \in f[i].children
        BY <1>1, <1>2 DEF Stack
    <2>2. ASSUME NEW y \in x.children PROVE \E i \in 1 .. Len(f) : y \in f[i].children
        BY <1>1, <1>2
    <2>3. ASSUME NEW i \in 1 .. Len(f) PROVE f[i].children \subseteq U \union x.children
        BY <1>1, <1>2 DEF Stack
    <2>4. QED BY <2>1, <2>2, <2>3
<1>4. ASSUME NEW i \in 1 .. Len(f), NEW j \in 1 .. Len(f), i # j
      PROVE  f[i].children \intersect f[j].children = {}
    <2>1. \A k \in 1 .. Len(g) : f[k].children \subseteq U
        BY <1>1 DEF Stack
    <2>2. QED BY <1>1, <1>2, <1>4, <2>1 DEF Stack
<1>5. Stack(f, U \union x.children)
    BY <1>1, <1>3, <1>4 DEF Stack
<1>6. QED BY <1>5 DEF f

\* Front, position by position.
LEMMA FrontIs ==
    ASSUME NEW S, NEW g \in Seq(S), g # <<>>
    PROVE  /\ Arena!Front(g) \in Seq(S) /\ Len(Arena!Front(g)) = Len(g) - 1
           /\ \A i \in 1 .. Len(g) - 1 : Arena!Front(g)[i] = g[i]
<1> DEFINE n == Len(g) - 1
<1>1. Len(g) \in Nat \ {0} /\ n \in Nat
    OBVIOUS
<1>2. \A i \in 1 .. n : i \in 1 .. Len(g) /\ g[i] \in S
    BY <1>1
<1>3. Arena!Front(g) = SubSeq(g, 1, n)
    BY DEF Arena!Front
<1> HIDE DEF n
<1>4. SubSeq(g, 1, n) = [i \in 1 .. n |-> g[i]]
    BY <1>1
<1>5. [i \in 1 .. n |-> g[i]] \in Seq(S)
    BY <1>1, <1>2
<1>6. Len([i \in 1 .. n |-> g[i]]) = n
    BY <1>1
<1>7. QED BY <1>3, <1>4, <1>5, <1>6 DEF n

\* One that ends leaves the handles of the others.
LEMMA StackPopped ==
    ASSUME NEW g, NEW U, Stack(g, U), g # <<>>
    PROVE  /\ Len(g) \in Nat \ {0}
           /\ Arena!Last(g) \in ArenaNode /\ Arena!Last(g).children \subseteq U
           /\ Stack(Arena!Front(g), U \ Arena!Last(g).children)
           /\ Len(Arena!Front(g)) = Len(g) - 1
<1> DEFINE f == Arena!Front(g)
           x == Arena!Last(g)
<1>1. /\ Len(g) \in Nat /\ Len(g) # 0 /\ Len(g) \in 1 .. Len(g)
      /\ x = g[Len(g)] /\ x \in ArenaNode
    BY DEF Stack, Arena!Last
<1>2. /\ f \in Seq(ArenaNode) /\ Len(f) = Len(g) - 1
      /\ \A i \in 1 .. Len(g) - 1 : f[i] = g[i]
    BY <1>1, FrontIs DEF Stack
<1> HIDE DEF f, x
<1>3. /\ \A i \in 1 .. Len(f) : i \in 1 .. Len(g) /\ i # Len(g) /\ f[i] = g[i]
      /\ \A i \in 1 .. Len(g) : i # Len(g) => i \in 1 .. Len(f)
    BY <1>1, <1>2
<1>4. U \ x.children = UNION {f[i].children : i \in 1 .. Len(f)}
    <2>1. ASSUME NEW y \in U, y \notin x.children
          PROVE  \E i \in 1 .. Len(f) : y \in f[i].children
        <3>1. PICK i \in 1 .. Len(g) : y \in g[i].children
            BY DEF Stack
        <3>2. QED BY <1>1, <1>3, <2>1, <3>1
    <2>2. ASSUME NEW i \in 1 .. Len(f) PROVE f[i].children \subseteq U \ x.children
        BY <1>1, <1>3 DEF Stack
    <2>3. QED BY <2>1, <2>2
<1>5. Stack(f, U \ x.children)
    BY <1>2, <1>3, <1>4 DEF Stack
<1>6. x.children \subseteq U
    BY <1>1 DEF Stack
<1>7. QED BY <1>1, <1>2, <1>5, <1>6 DEF f, x

\* What the innermost call changes in its node.
LEMMA StackTop ==
    ASSUME NEW g \in Seq(ArenaNode), g # <<>>
    PROVE  /\ \A C \in SUBSET Nat :
                 /\ [Arena!Last(g) EXCEPT !.children = C] \in ArenaNode
                 /\ [Arena!Last(g) EXCEPT !.children = C].children = C
                 /\ [g EXCEPT ![Len(g)].children = C] =
                       Append(Arena!Front(g), [Arena!Last(g) EXCEPT !.children = C])
           /\ \A n \in Int :
                 /\ [Arena!Last(g) EXCEPT !.hashes = n] \in ArenaNode
                 /\ [Arena!Last(g) EXCEPT !.hashes = n].children = Arena!Last(g).children
                 /\ [g EXCEPT ![Len(g)].hashes = n] =
                       Append(Arena!Front(g), [Arena!Last(g) EXCEPT !.hashes = n])
<1> DEFINE f == Arena!Front(g)
<1>1. Len(g) \in Nat /\ Len(g) # 0 /\ Len(g) \in 1 .. Len(g) /\ g[Len(g)] \in ArenaNode
    OBVIOUS
<1>2. /\ f \in Seq(ArenaNode) /\ Len(f) = Len(g) - 1
      /\ \A i \in 1 .. Len(g) - 1 : f[i] = g[i]
    BY FrontIs
<1>3. ASSUME NEW x \in ArenaNode PROVE [g EXCEPT ![Len(g)] = x] = Append(f, x)
    <2> DEFINE p == [g EXCEPT ![Len(g)] = x]
               q == Append(f, x)
    <2>1. p \in Seq(ArenaNode) /\ Len(p) = Len(g) /\ p[Len(g)] = x
          /\ \A i \in 1 .. Len(g) - 1 : p[i] = g[i]
        BY <1>1
    <2>2. q \in Seq(ArenaNode) /\ Len(q) = Len(g) /\ q[Len(g)] = x
          /\ \A i \in 1 .. Len(g) - 1 : q[i] = g[i]
        BY <1>1, <1>2
    <2> HIDE DEF p, q
    <2>3. \A i \in 1 .. Len(g) : p[i] = q[i]
        BY <1>1, <2>1, <2>2
    <2>4. p = q
        BY <2>1, <2>2, <2>3
    <2>5. QED BY <2>4 DEF p, q
<1>4. Arena!Last(g) = g[Len(g)]
    BY DEF Arena!Last
<1>5. ASSUME NEW C \in SUBSET Nat
      PROVE  /\ [Arena!Last(g) EXCEPT !.children = C] \in ArenaNode
             /\ [Arena!Last(g) EXCEPT !.children = C].children = C
             /\ [g EXCEPT ![Len(g)].children = C] =
                   [g EXCEPT ![Len(g)] = [Arena!Last(g) EXCEPT !.children = C]]
    BY <1>1, <1>4 DEF ArenaNode
<1>6. ASSUME NEW n \in Int
      PROVE  /\ [Arena!Last(g) EXCEPT !.hashes = n] \in ArenaNode
             /\ [Arena!Last(g) EXCEPT !.hashes = n].children = Arena!Last(g).children
             /\ [g EXCEPT ![Len(g)].hashes = n] =
                   [g EXCEPT ![Len(g)] = [Arena!Last(g) EXCEPT !.hashes = n]]
    BY <1>1, <1>4 DEF ArenaNode
<1>7. QED BY <1>3, <1>5, <1>6

\* The arena is empty: nothing has a handle.
LEMMA ArenaStart == Arena!Init => ArenaInv
<1> SUFFICES ASSUME Arena!Init PROVE ArenaInv
    OBVIOUS
<1>1. Sound([nodes |-> <<>>, free |-> <<>>], {})
    BY DEF Sound, ArenaTyped, Live
<1>2. committing \union ({root_handle} \ {Arena!OnDisk}) = {}
    BY DEF Arena!Init
<1>3. QED BY <1>1, <1>2 DEF ArenaInv, Arena!Init

\* The same arena, of a trie that is opened.
LEMMA ArenaOpened == Arena!Opened => ArenaInv'
<1> SUFFICES ASSUME Arena!Opened PROVE ArenaInv'
    OBVIOUS
<1>1. Sound([nodes |-> <<>>, free |-> <<>>], {})
    BY DEF Sound, ArenaTyped, Live
<1>2. committing' \union ({root_handle'} \ {Arena!OnDisk}) = {}
    BY DEF Arena!Opened
<1>3. Arena!OnDisk' = Arena!OnDisk
    BY DEF Arena!OnDisk
<1>4. QED BY <1>1, <1>2, <1>3 DEF ArenaInv, Arena!Opened

\* insert and remove begin.
LEMMA ArenaTakeRoot == ASSUME ArenaInv, Arena!TakeRoot PROVE ArenaInv'
<1>1. /\ failed = FALSE /\ hand = <<>> /\ committing = {} /\ failed' = FALSE
      /\ committing' = {}
      /\ Sound(storage, {root_handle} \ {Arena!OnDisk})
    <2>1. /\ failed = FALSE /\ hand = <<>> /\ committing = {} /\ failed' = FALSE
          /\ committing' = {}
        BY DEF ArenaInv, Arena!TakeRoot, Arena!Idle
    <2>2. committing \union ({root_handle} \ {Arena!OnDisk}) = {root_handle} \ {Arena!OnDisk}
        BY <2>1
    <2>3. QED BY <2>1, <2>2 DEF ArenaInv
<1>2. ASSUME NEW x \in ArenaNode PROVE Stack(<<x>>, x.children) /\ <<x>> # <<>>
    BY DEF Stack
<1>3. CASE root_handle # Arena!OnDisk
    <2>1. hand' = <<storage.nodes[root_handle]>> /\ storage' = Arena!destroy(storage, root_handle)
        BY <1>3 DEF Arena!TakeRoot
    <2>2. Sound(storage, {root_handle})
        <3>1. {root_handle} \ {Arena!OnDisk} = {root_handle}
            BY <1>3
        <3>2. QED BY <1>1, <3>1
    <2>3. /\ storage.nodes[root_handle] \in ArenaNode
          /\ Sound(storage', ({root_handle} \ {root_handle}) \union storage.nodes[root_handle].children)
        BY <2>1, <2>2, SlotDestroyed
    <2>4. ({root_handle} \ {root_handle}) \union storage.nodes[root_handle].children
             = storage.nodes[root_handle].children
        OBVIOUS
    <2>5. Sound(storage', storage.nodes[root_handle].children)
        BY <2>3, <2>4
    <2>6. Stack(hand', storage.nodes[root_handle].children) /\ hand' # <<>>
        BY <1>2, <2>1, <2>3
    <2>7. QED BY <1>1, <2>5, <2>6 DEF ArenaInv
<1>4. CASE root_handle = Arena!OnDisk
    <2>1. PICK l \in Arena!Loads(storage) : hand' = <<l.stored>> /\ storage' = l.storage
        BY <1>4 DEF Arena!TakeRoot
    <2>2. Sound(storage, {})
        <3>1. {root_handle} \ {Arena!OnDisk} = {}
            BY <1>4
        <3>2. QED BY <1>1, <3>1
    <2>3. l.stored \in ArenaNode /\ Sound(l.storage, {} \union l.stored.children)
        BY <2>2, SlotsLoaded
    <2>4. Sound(storage', l.stored.children)
        <3>1. {} \union l.stored.children = l.stored.children
            OBVIOUS
        <3>2. QED BY <2>1, <2>3, <3>1
    <2>5. Stack(hand', l.stored.children) /\ hand' # <<>>
        BY <1>2, <2>1, <2>3
    <2>6. QED BY <1>1, <2>4, <2>5 DEF ArenaInv
<1>5. QED BY <1>3, <1>4

\* The state in which calls are under way, and when one of them stays so.
LEMMA UnderWay ==
    ASSUME ArenaInv, hand # <<>>
    PROVE  /\ failed = FALSE /\ committing = {} /\ hand \in Seq(ArenaNode)
           /\ Arena!Top \in ArenaNode /\ Arena!Top = Arena!Last(hand)
           /\ Len(hand) \in Nat \ {0}
           /\ \E U : /\ Stack(hand, U) /\ Sound(storage, U) /\ Arena!Top.children \subseteq U
                     /\ Stack(Arena!Front(hand), U \ Arena!Top.children)
<1>1. failed = FALSE /\ committing = {}
    BY DEF ArenaInv
<1>2. PICK U : Stack(hand, U) /\ Sound(storage, U)
    BY <1>1 DEF ArenaInv
<1>3. hand \in Seq(ArenaNode)
    BY <1>2 DEF Stack
<1>4. Arena!Top = Arena!Last(hand)
    BY DEF Arena!Top
<1>5. /\ Len(hand) \in Nat \ {0}
      /\ Arena!Last(hand) \in ArenaNode /\ Arena!Last(hand).children \subseteq U
      /\ Stack(Arena!Front(hand), U \ Arena!Last(hand).children)
    BY <1>2, StackPopped
<1>6. QED BY <1>1, <1>2, <1>3, <1>4, <1>5

\* insert_at, remove_at and fix of a child.
LEMMA ArenaTakeChild == ASSUME ArenaInv, Arena!TakeChild PROVE ArenaInv'
<1> DEFINE top == Arena!Top
           f == Arena!Front(hand)
<1>1. /\ hand # <<>> /\ failed = FALSE /\ committing = {} /\ failed' = FALSE /\ committing' = {}
      /\ hand \in Seq(ArenaNode) /\ top \in ArenaNode /\ top = Arena!Last(hand)
    BY UnderWay DEF Arena!TakeChild
<1>2. PICK U : /\ Sound(storage, U) /\ top.children \subseteq U
               /\ Stack(f, U \ top.children)
    BY <1>1, UnderWay
<1>3. Len(hand) \in 1 .. Len(hand) /\ hand[Len(hand)] = top
    BY <1>1 DEF Arena!Last
<1> HIDE DEF top, f
<1>4. ASSUME NEW V, NEW W, NEW x \in ArenaNode, NEW y \in ArenaNode,
             hand' = Append(Append(f, x), y), x.children = W, W \subseteq top.children,
             y.children \intersect U = {},
             Sound(storage', V),
             V = ((U \ top.children) \union W) \union y.children
      PROVE  ArenaInv'
    <2>1. Stack(Append(f, x), (U \ top.children) \union W)
        <3>1. W \intersect (U \ top.children) = {}
            BY <1>4
        <3>2. QED BY <1>2, <1>4, <3>1, StackPushed
    <2>2. Stack(hand', V)
        <3>1. y.children \intersect ((U \ top.children) \union W) = {}
            BY <1>2, <1>4
        <3>2. QED BY <1>4, <2>1, <3>1, StackPushed
    <2>3. hand' # <<>>
        <3>1. Append(f, x) \in Seq(ArenaNode)
            BY <2>1 DEF Stack
        <3>2. QED BY <1>4, <3>1
    <2>4. QED BY <1>1, <1>4, <2>2, <2>3 DEF ArenaInv
<1>5. ASSUME NEW c \in top.children,
             hand' = Append([hand EXCEPT ![Len(hand)].children = @ \ {c}], storage.nodes[c]),
             storage' = Arena!destroy(storage, c)
      PROVE  ArenaInv'
    <2> DEFINE W == top.children \ {c}
               x == [top EXCEPT !.children = W]
               y == storage.nodes[c]
    <2>1. /\ y \in ArenaNode /\ y.children \intersect U = {}
          /\ Sound(storage', (U \ {c}) \union y.children)
        BY <1>2, <1>5, SlotDestroyed
    <2>2. W \in SUBSET Nat
        BY <1>1 DEF ArenaNode
    <2>3. [hand EXCEPT ![Len(hand)].children = @ \ {c}] = [hand EXCEPT ![Len(hand)].children = W]
        BY <1>1, <1>3
    <2>4. x \in ArenaNode /\ x.children = W
          /\ [hand EXCEPT ![Len(hand)].children = W] = Append(f, x)
        <3>1. \A C \in SUBSET Nat :
                 /\ [Arena!Last(hand) EXCEPT !.children = C] \in ArenaNode
                 /\ [Arena!Last(hand) EXCEPT !.children = C].children = C
                 /\ [hand EXCEPT ![Len(hand)].children = C] =
                       Append(Arena!Front(hand), [Arena!Last(hand) EXCEPT !.children = C])
            BY <1>1, StackTop
        <3>2. QED BY <1>1, <2>2, <3>1 DEF f
    <2>5. (U \ {c}) \union y.children = ((U \ top.children) \union W) \union y.children
        BY <1>2, <1>5
    <2>6. hand' = Append(Append(f, x), y)
        BY <1>5, <2>3, <2>4
    <2> HIDE DEF x, y
    <2>7. QED BY <1>4, <2>1, <2>4, <2>5, <2>6
<1>6. ASSUME NEW l \in Arena!Loads(storage),
             hand' = Append([hand EXCEPT ![Len(hand)].hashes = @ - 1], l.stored),
             storage' = l.storage
      PROVE  ArenaInv'
    <2> DEFINE x == [top EXCEPT !.hashes = top.hashes - 1]
               y == l.stored
    <2>1. /\ y \in ArenaNode /\ y.children \intersect U = {}
          /\ Sound(storage', U \union y.children)
        BY <1>2, <1>6, SlotsLoaded
    <2>2. top.hashes - 1 \in Int
        BY <1>1 DEF ArenaNode
    <2>3. [hand EXCEPT ![Len(hand)].hashes = @ - 1]
            = [hand EXCEPT ![Len(hand)].hashes = top.hashes - 1]
        BY <1>1, <1>3
    <2>4. x \in ArenaNode /\ x.children = top.children
          /\ [hand EXCEPT ![Len(hand)].hashes = top.hashes - 1] = Append(f, x)
        BY <1>1, <2>2, StackTop DEF f
    <2>5. U \union y.children = ((U \ top.children) \union top.children) \union y.children
        BY <1>2
    <2>6. hand' = Append(Append(f, x), y)
        BY <1>6, <2>3, <2>4
    <2> HIDE DEF x, y
    <2>7. QED BY <1>4, <2>1, <2>4, <2>5, <2>6
<1>7. QED BY <1>5, <1>6 DEF Arena!TakeChild, top

\* insert_inspector makes a child.
LEMMA ArenaNewChild == ASSUME ArenaInv, Arena!NewChild PROVE ArenaInv'
<1> DEFINE top == Arena!Top
           f == Arena!Front(hand)
           h == Arena!handle(storage)
<1>1. /\ hand # <<>> /\ failed = FALSE /\ committing = {} /\ failed' = FALSE /\ committing' = {}
      /\ hand \in Seq(ArenaNode) /\ top \in ArenaNode /\ top = Arena!Last(hand)
    BY UnderWay DEF Arena!NewChild
<1>2. PICK U : /\ Sound(storage, U) /\ top.children \subseteq U
               /\ Stack(f, U \ top.children)
    BY <1>1, UnderWay
<1>3. Len(hand) \in 1 .. Len(hand) /\ hand[Len(hand)] = top /\ top.children \subseteq Nat
    BY <1>1 DEF Arena!Last, ArenaNode
<1>4. PICK own \in SUBSET top.children :
          /\ hand' = [hand EXCEPT ![Len(hand)].children = (@ \ own) \union {h}]
          /\ storage' = Arena!alloc(storage, Arena!Stored("New", own, 0))
    BY DEF Arena!NewChild
<1>5. Arena!Stored("New", own, 0) \in ArenaNode /\ Arena!Stored("New", own, 0).children = own
    BY <1>3 DEF Arena!Stored, ArenaNode
<1>6. h \in Nat \ {0} /\ h \notin U /\ Sound(storage', (U \ own) \union {h})
    <2>1. own \subseteq U
        BY <1>2
    <2>2. QED BY <1>2, <1>4, <1>5, <2>1, SlotAllocated
<1> HIDE DEF top, f, h
<1> DEFINE W == (top.children \ own) \union {h}
           x == [Arena!Last(hand) EXCEPT !.children = W]
<1>7. W \in SUBSET Nat
    BY <1>3, <1>6
<1>8. x \in ArenaNode /\ x.children = W /\ hand' = Append(f, x)
    <2>1. \A C \in SUBSET Nat :
             /\ [Arena!Last(hand) EXCEPT !.children = C] \in ArenaNode
             /\ [Arena!Last(hand) EXCEPT !.children = C].children = C
             /\ [hand EXCEPT ![Len(hand)].children = C] =
                   Append(Arena!Front(hand), [Arena!Last(hand) EXCEPT !.children = C])
        BY <1>1, StackTop
    <2>2. hand' = [hand EXCEPT ![Len(hand)].children = W]
        BY <1>1, <1>3, <1>4
    <2>3. QED BY <1>7, <2>1, <2>2 DEF f
<1>9. (U \ top.children) \union W = (U \ own) \union {h}
    BY <1>2
<1>10. x.children \intersect (U \ top.children) = {}
    BY <1>6, <1>8
<1> HIDE DEF x
<1>11. Stack(hand', (U \ own) \union {h})
    <2>1. Stack(Append(f, x), (U \ top.children) \union x.children)
        BY <1>2, <1>8, <1>10, StackPushed
    <2>2. QED BY <1>8, <1>9, <2>1
<1>12. hand' # <<>>
    BY <1>2, <1>8 DEF Stack
<1>13. QED BY <1>1, <1>6, <1>11, <1>12 DEF ArenaInv

\* A node is put back, and its handle goes to the call before or is the root's.
LEMMA ArenaPutBack == ASSUME ArenaInv, Arena!PutBack PROVE ArenaInv'
<1> DEFINE top == Arena!Top
           f == Arena!Front(hand)
           h == Arena!handle(storage)
<1>1. /\ hand # <<>> /\ failed = FALSE /\ committing = {} /\ failed' = FALSE /\ committing' = {}
      /\ hand \in Seq(ArenaNode) /\ top \in ArenaNode /\ top = Arena!Last(hand)
      /\ Len(hand) \in Nat \ {0}
    BY UnderWay DEF Arena!PutBack
<1>2. PICK U : /\ Stack(hand, U) /\ Sound(storage, U) /\ top.children \subseteq U
               /\ Stack(f, U \ top.children)
    BY <1>1, UnderWay
<1>3. PICK tag \in {"New", top.tag} :
          storage' = Arena!alloc(storage, Arena!Stored(tag, top.children, top.hashes))
    BY DEF Arena!PutBack
<1>4. /\ Arena!Stored(tag, top.children, top.hashes) \in ArenaNode
      /\ Arena!Stored(tag, top.children, top.hashes).children = top.children
    BY <1>1 DEF Arena!Stored, ArenaNode
<1>5. h \in Nat \ {0} /\ h \notin U /\ Sound(storage', (U \ top.children) \union {h})
    BY <1>2, <1>3, <1>4, SlotAllocated
<1>6. CASE Len(hand) = 1
    <2>1. hand' = <<>> /\ root_handle' = h
        BY <1>6 DEF Arena!PutBack
    <2>2. U = top.children
        <3>1. U = UNION {hand[i].children : i \in 1 .. Len(hand)}
            BY <1>2 DEF Stack
        <3>2. \A i \in 1 .. Len(hand) : hand[i] = top
            BY <1>1, <1>6 DEF Arena!Last
        <3>3. QED BY <1>2, <3>1, <3>2
    <2>3. committing' \union ({root_handle'} \ {Arena!OnDisk}) = (U \ top.children) \union {h}
        BY <1>1, <1>5, <2>1, <2>2 DEF Arena!OnDisk
    <2>4. Arena!OnDisk' = Arena!OnDisk
        BY DEF Arena!OnDisk
    <2>5. Sound(storage', committing' \union ({root_handle'} \ {Arena!OnDisk}))
        BY <1>5, <2>3
    <2>6. QED BY <1>1, <2>1, <2>4, <2>5 DEF ArenaInv
<1>7. CASE Len(hand) # 1
    <2>1. hand' = [f EXCEPT ![Len(hand) - 1].children = @ \union {h}]
        BY <1>7 DEF Arena!PutBack
    <2> HIDE DEF top, f, h
    <2>2. Len(f) = Len(hand) - 1 /\ f \in Seq(ArenaNode) /\ f # <<>>
        <3>1. f \in Seq(ArenaNode)
            BY <1>2 DEF Stack
        <3>2. Len(f) = Len(hand) - 1
            BY <1>1, <1>2, StackPopped DEF f
        <3>3. QED BY <1>1, <1>7, <3>1, <3>2
    <2> DEFINE t == Arena!Last(f)
               g == Arena!Front(f)
               V == U \ top.children
               W == t.children \union {h}
               x == [Arena!Last(f) EXCEPT !.children = W]
    <2>3. t \in ArenaNode /\ t.children \subseteq V /\ Stack(g, V \ t.children)
          /\ Len(f) \in Nat \ {0} /\ t = f[Len(f)]
        BY <1>2, <2>2, StackPopped DEF Arena!Last
    <2>4. W \in SUBSET Nat
        BY <1>5, <2>3 DEF ArenaNode
    <2>5. x \in ArenaNode /\ x.children = W /\ hand' = Append(g, x)
        <3>1. \A C \in SUBSET Nat :
                 /\ [Arena!Last(f) EXCEPT !.children = C] \in ArenaNode
                 /\ [Arena!Last(f) EXCEPT !.children = C].children = C
                 /\ [f EXCEPT ![Len(f)].children = C] =
                       Append(Arena!Front(f), [Arena!Last(f) EXCEPT !.children = C])
            BY <2>2, StackTop
        <3>2. hand' = [f EXCEPT ![Len(f)].children = W]
            <4>1. Len(f) \in 1 .. Len(f)
                BY <2>3
            <4>2. QED BY <2>1, <2>2, <2>3, <4>1
        <3>3. QED BY <2>4, <3>1, <3>2
    <2>6. x.children \intersect (V \ t.children) = {}
          /\ (V \ t.children) \union x.children = V \union {h}
        BY <1>5, <2>3, <2>5
    <2> HIDE DEF t, g, V, W, x
    <2>7. Stack(Append(g, x), (V \ t.children) \union x.children)
        BY <2>3, <2>5, <2>6, StackPushed
    <2>8. Stack(hand', V \union {h})
        BY <2>5, <2>6, <2>7
    <2>9. hand' # <<>>
        BY <2>3, <2>5 DEF Stack
    <2>10. QED BY <1>1, <1>5, <2>8, <2>9 DEF ArenaInv, V
<1>8. QED BY <1>6, <1>7

\* A leaf is deleted.
LEMMA ArenaDelete == ASSUME ArenaInv, Arena!Delete PROVE ArenaInv'
<1> DEFINE top == Arena!Top
           f == Arena!Front(hand)
<1>1. /\ hand # <<>> /\ failed = FALSE /\ committing = {} /\ failed' = FALSE /\ committing' = {}
      /\ top = Arena!Last(hand) /\ Len(hand) \in Nat \ {0}
      /\ top.children = {} /\ hand' = f /\ storage' = storage
    BY UnderWay DEF Arena!Delete
<1>2. PICK U : Stack(hand, U) /\ Sound(storage, U) /\ Stack(f, U \ top.children)
    BY <1>1, UnderWay
<1>3. U \ top.children = U
    BY <1>1
<1> HIDE DEF top, f
<1>4. Stack(hand', U) /\ Sound(storage', U)
    BY <1>1, <1>2, <1>3
<1>5. CASE Len(hand) = 1
    <2>1. root_handle' = Arena!OnDisk
        BY <1>5 DEF Arena!Delete
    <2>2. Sound(storage', {})
        BY <1>4, SlotsDropped
    <2>3. committing' \union ({root_handle'} \ {Arena!OnDisk}) = {} /\ Arena!OnDisk' = Arena!OnDisk
        BY <1>1, <2>1 DEF Arena!OnDisk
    <2>4. Sound(storage', committing' \union ({root_handle'} \ {Arena!OnDisk}))
        BY <2>2, <2>3
    <2>5. QED BY <1>1, <1>4, <2>3, <2>4 DEF ArenaInv
<1>6. CASE Len(hand) # 1
    <2>1. hand' # <<>>
        <3>1. Len(f) = Len(hand) - 1
            BY <1>1, <1>2, StackPopped DEF f
        <3>2. QED BY <1>1, <1>6, <3>1
    <2>2. QED BY <1>1, <1>4, <2>1 DEF ArenaInv
<1>7. QED BY <1>5, <1>6

\* fix makes one node of two, of which the outer has no child left.
LEMMA ArenaCombine == ASSUME ArenaInv, Arena!Combine PROVE ArenaInv'
<1> DEFINE top == Arena!Top
           f == Arena!Front(hand)
           x == [top EXCEPT !.tag = "New"]
<1>1. Len(hand) > 1 /\ hand[Len(hand) - 1].children = {}
      /\ hand' = Append(Arena!Front(f), x)
      /\ storage' = storage /\ committing' = committing /\ failed' = failed
    BY DEF Arena!Combine
<1>2. hand # <<>>
    BY <1>1
<1>3. /\ failed = FALSE /\ committing = {} /\ hand \in Seq(ArenaNode)
      /\ top \in ArenaNode /\ top = Arena!Last(hand) /\ Len(hand) \in Nat \ {0}
    BY <1>2, UnderWay
<1>4. PICK U : Stack(hand, U) /\ Sound(storage, U) /\ top.children \subseteq U
               /\ Stack(f, U \ top.children)
    BY <1>2, UnderWay
<1>5. x \in ArenaNode /\ x.children = top.children
    BY <1>3 DEF ArenaNode
<1> HIDE DEF top, x
<1>6. /\ Len(f) = Len(hand) - 1 /\ f[Len(hand) - 1] = hand[Len(hand) - 1]
    <2>1. \A i \in 1 .. Len(hand) - 1 : f[i] = hand[i]
        BY <1>2, <1>3, FrontIs
    <2>2. Len(f) = Len(hand) - 1
        BY <1>2, <1>3, FrontIs
    <2>3. QED BY <1>1, <1>3, <2>1, <2>2
<1> HIDE DEF f
<1>7. f # <<>> /\ Arena!Last(f).children = {}
    BY <1>1, <1>3, <1>6 DEF Arena!Last
<1>8. Stack(Arena!Front(f), (U \ top.children) \ Arena!Last(f).children)
    BY <1>4, <1>7, StackPopped
<1>9. (U \ top.children) \ Arena!Last(f).children = U \ x.children
      /\ (U \ x.children) \union x.children = U /\ x.children \intersect (U \ x.children) = {}
    BY <1>4, <1>5, <1>7
<1>10. Stack(hand', (U \ x.children) \union x.children)
    <2>1. Stack(Arena!Front(f), U \ x.children)
        BY <1>8, <1>9
    <2>2. QED BY <1>1, <1>5, <1>9, <2>1, StackPushed
<1>11. Stack(hand', U)
    BY <1>9, <1>10
<1>12. hand' # <<>>
    BY <1>1, <1>8 DEF Stack
<1>13. QED BY <1>1, <1>3, <1>4, <1>11, <1>12 DEF ArenaInv

\* commit takes the root out, and may put it back.
LEMMA ArenaCommit == ASSUME ArenaInv, Arena!Commit PROVE ArenaInv'
<1> DEFINE r == root_handle
           x == storage.nodes[r]
           t == Arena!destroy(storage, r)
<1>1. /\ failed = FALSE /\ hand = <<>> /\ committing = {} /\ failed' = FALSE /\ hand' = <<>>
      /\ r # Arena!OnDisk /\ Arena!OnDisk' = Arena!OnDisk
    BY DEF ArenaInv, Arena!Commit, Arena!Idle, Arena!OnDisk
<1>2. Sound(storage, {r})
    <2>1. committing \union ({root_handle} \ {Arena!OnDisk}) = {r}
        BY <1>1
    <2>2. QED BY <1>1, <2>1 DEF ArenaInv
<1>3. x \in ArenaNode /\ Sound(t, x.children)
    <2>1. x \in ArenaNode /\ Sound(t, ({r} \ {r}) \union x.children)
        BY <1>2, SlotDestroyed
    <2>2. ({r} \ {r}) \union x.children = x.children
        OBVIOUS
    <2>3. QED BY <2>1, <2>2
<1>4. CASE x.tag = "New"
    <2>1. storage' = t /\ committing' = x.children /\ root_handle' = Arena!OnDisk
        BY <1>4 DEF Arena!Commit
    <2> HIDE DEF x, t
    <2>2. committing' \union ({root_handle'} \ {Arena!OnDisk}) = x.children
        BY <2>1
    <2>3. Sound(storage', committing' \union ({root_handle'} \ {Arena!OnDisk}))
        BY <1>3, <2>1, <2>2
    <2>4. QED BY <1>1, <2>1, <2>3 DEF ArenaInv
<1>5. CASE x.tag # "New"
    <2>1. storage' = Arena!alloc(t, x) /\ root_handle' = Arena!handle(t)
          /\ committing' = committing
        BY <1>5 DEF Arena!Commit
    <2> HIDE DEF x, t
    <2>2. Arena!handle(t) \in Nat \ {0}
          /\ Sound(storage', (x.children \ x.children) \union {Arena!handle(t)})
        BY <1>3, <2>1, SlotAllocated
    <2>3. committing' \union ({root_handle'} \ {Arena!OnDisk})
             = (x.children \ x.children) \union {Arena!handle(t)}
        BY <1>1, <2>1, <2>2 DEF Arena!OnDisk
    <2>4. Sound(storage', committing' \union ({root_handle'} \ {Arena!OnDisk}))
        BY <2>2, <2>3
    <2>5. QED BY <1>1, <2>1, <2>4 DEF ArenaInv
<1>6. QED BY <1>4, <1>5

\* commit_node takes a child out; what is below one that has not changed is left.
LEMMA ArenaCommitNode == ASSUME ArenaInv, Arena!CommitNode PROVE ArenaInv'
<1>1. PICK c \in committing :
          /\ storage' = Arena!destroy(storage, c)
          /\ committing' = (committing \ {c}) \union (IF storage.nodes[c].tag = "New"
                                                     THEN storage.nodes[c].children ELSE {})
    BY DEF Arena!CommitNode
<1>2. /\ failed = FALSE /\ hand = <<>> /\ failed' = FALSE /\ hand' = <<>>
      /\ root_handle = Arena!OnDisk /\ root_handle' = Arena!OnDisk
      /\ Arena!OnDisk' = Arena!OnDisk
    BY <1>1 DEF ArenaInv, Arena!CommitNode, Arena!OnDisk
<1>3. Sound(storage, committing)
    <2>1. committing \union ({root_handle} \ {Arena!OnDisk}) = committing
        BY <1>2
    <2>2. QED BY <1>2, <2>1 DEF ArenaInv
<1>4. Sound(storage', (committing \ {c}) \union storage.nodes[c].children)
    BY <1>1, <1>3, SlotDestroyed
<1>5. committing' \in SUBSET ((committing \ {c}) \union storage.nodes[c].children)
    BY <1>1
<1>6. Sound(storage', committing')
    BY <1>4, <1>5, SlotsDropped
<1>7. committing' \union ({root_handle'} \ {Arena!OnDisk}) = committing'
    BY <1>2
<1>8. Sound(storage', committing' \union ({root_handle'} \ {Arena!OnDisk}))
    BY <1>6, <1>7
<1>9. QED BY <1>2, <1>8 DEF ArenaInv

\* An operation that fails lets go of what it has taken out.
LEMMA ArenaTakeChildFails == ASSUME ArenaInv, Arena!TakeChildFails PROVE ArenaInv'
BY DEF ArenaInv, Arena!TakeChildFails

\* Handles that are all different, of slots in use, are the property.
LEMMA ArenaFromInv == ArenaInv => Arena!OneOwner
<1> SUFFICES ASSUME ArenaInv, ~failed
             PROVE  /\ Arena!Apart(Arena!Held) /\ Arena!Apart(Arena!Children)
                    /\ \A i \in DOMAIN Arena!Children :
                          Arena!Children[i] \intersect Arena!HeldSet = {}
                    /\ Arena!HeldSet \union UNION {Arena!Children[i] : i \in DOMAIN Arena!Children}
                           \subseteq DOMAIN storage.nodes \ Arena!ToSet(storage.free)
                    /\ Arena!IsInjective(storage.free)
    BY DEF Arena!OneOwner
<1>1. PICK U : Sound(storage, U) /\ Arena!HeldSet = U /\ Arena!Apart(Arena!Held)
    <2>1. CASE hand # <<>>
        <3>1. PICK U : Stack(hand, U) /\ Sound(storage, U)
            BY <2>1 DEF ArenaInv
        <3>2. Arena!Held = [i \in 1 .. Len(hand) |-> hand[i].children]
            BY <2>1, <3>1 DEF Arena!Held, Stack
        <3>3. DOMAIN Arena!Held = 1 .. Len(hand)
              /\ \A i \in 1 .. Len(hand) : Arena!Held[i] = hand[i].children
            BY <3>2
        <3>4. Arena!HeldSet = UNION {hand[i].children : i \in 1 .. Len(hand)}
            BY <3>3 DEF Arena!HeldSet
        <3>5. Arena!Apart(Arena!Held)
            BY <3>1, <3>3 DEF Arena!Apart, Stack
        <3>6. QED BY <3>1, <3>4, <3>5 DEF Stack
    <2>2. CASE hand = <<>>
        <3> DEFINE R == {root_handle} \ {Arena!OnDisk}
        <3>1. Sound(storage, committing \union R) /\ committing \intersect R = {}
            <4>1. Sound(storage, committing \union R)
                BY <2>2 DEF ArenaInv
            <4>2. committing # {} => R = {}
                BY DEF ArenaInv
            <4>3. QED BY <4>1, <4>2
        <3>2. Arena!Held = <<committing, R>>
            BY <2>2 DEF Arena!Held
        <3> HIDE DEF R
        <3>3. DOMAIN Arena!Held = {1, 2} /\ Arena!Held[1] = committing /\ Arena!Held[2] = R
            BY <3>2
        <3>4. Arena!HeldSet = committing \union R
            BY <3>3 DEF Arena!HeldSet
        <3>5. Arena!Apart(Arena!Held)
            BY <3>1, <3>3 DEF Arena!Apart
        <3>6. QED BY <3>1, <3>4, <3>5
    <2>3. QED BY <2>1, <2>2
<1>2. /\ DOMAIN storage.nodes = 1 .. Len(storage.nodes)
      /\ DOMAIN storage.free = 1 .. Len(storage.free)
    BY <1>1 DEF Sound, ArenaTyped
<1>3. DOMAIN Arena!Children = 1 .. Len(storage.nodes)
      /\ \A i \in 1 .. Len(storage.nodes) : Arena!Children[i] = storage.nodes[i].children
    BY <1>2 DEF Arena!Children
<1>4. Arena!IsInjective(storage.free)
    BY <1>1, <1>2 DEF Sound, ArenaTyped, Arena!IsInjective
<1>5. Live(storage) = DOMAIN storage.nodes \ Arena!ToSet(storage.free)
    BY <1>2 DEF Live, Arena!ToSet
<1>6. Arena!Apart(Arena!Children)
    BY <1>1, <1>3 DEF Sound, Arena!Apart
<1>7. \A i \in DOMAIN Arena!Children : Arena!Children[i] \intersect Arena!HeldSet = {}
    BY <1>1, <1>3 DEF Sound
<1>8. Arena!HeldSet \union UNION {Arena!Children[i] : i \in DOMAIN Arena!Children}
         \subseteq Live(storage)
    BY <1>1, <1>3 DEF Sound
<1>9. QED BY <1>1, <1>4, <1>5, <1>6, <1>7, <1>8

\* Until an operation fails, handles of the arena are never shared and never
\* dangle, whatever is inserted, removed, loaded and committed, in arenas and
\* nestings of any size (patricia_trie/src/triedbmut.rs, NodeStorage, insert_at,
\* remove_at, fix, commit).
THEOREM EverySlotHasOneOwner == Arena!Spec => []OneOwner
<1>1. Arena!Init => ArenaInv
    BY ArenaStart
<1>2. ArenaInv /\ [Arena!Next]_(Arena!arena_vars) => ArenaInv'
    <2> SUFFICES ASSUME ArenaInv, [Arena!Next]_(Arena!arena_vars) PROVE ArenaInv'
        OBVIOUS
    <2>1. CASE UNCHANGED Arena!arena_vars
        <3>1. /\ storage' = storage /\ root_handle' = root_handle /\ hand' = hand
              /\ committing' = committing /\ failed' = failed
              /\ Arena!OnDisk' = Arena!OnDisk
            BY <2>1 DEF Arena!arena_vars, Arena!OnDisk
        <3>2. QED BY <3>1 DEF ArenaInv
    <2>2. CASE Arena!Next
        BY <2>2, ArenaTakeRoot, ArenaTakeChild, ArenaTakeChildFails, ArenaNewChild,
           ArenaPutBack, ArenaDelete, ArenaCombine, ArenaCommit, ArenaCommitNode,
           ArenaOpened DEF Arena!Next
    <2>3. QED BY <2>1, <2>2
<1>3. ArenaInv => OneOwner
    BY ArenaFromInv DEF OneOwner
<1>4. QED BY <1>1, <1>2, <1>3, PTL DEF Arena!Spec

-------------------------------------------------------------------------------
(* Blake2b.  Until it is finalized, a hasher has compressed the full blocks *)
(* of what it was given but for one or two, which are in its buffer.        *)

\* The counter at n bytes.
Ctr(n) == <<n % WordBase, n \div WordBase>>

\* The block behind p bytes of what was fed, and block i, as it is compressed
\* when more follows.
BlockAt(all, p, t) ==
    [block |-> [j \in 1 .. BLOCK_BYTES |-> all[p + j]], t |-> Ctr(t), f |-> FALSE]

Chunk(all, i) == BlockAt(all, (i - 1) * BLOCK_BYTES, i * BLOCK_BYTES)

\* What a chain is made of.
Links(param) == {param} \union [block : Seq(Nat), t : Nat \X Nat, f : BOOLEAN]

Hashers(param) ==
    [h : Seq(Links(param)), t : Nat \X Nat, f : BOOLEAN, buf : Seq(Nat), buf_len : Nat]

\* A hasher that was given all, of which it has compressed c blocks.
Taken(s, param, all, c) ==
    /\ s \in Hashers(param) /\ s.f = FALSE /\ all \in Seq(Nat) /\ c \in Nat
    /\ Len(s.buf) = 2 * BLOCK_BYTES /\ s.buf_len <= 2 * BLOCK_BYTES
    /\ Len(all) = c * BLOCK_BYTES + s.buf_len
    /\ \A j \in 1 .. s.buf_len : s.buf[j] = all[c * BLOCK_BYTES + j]
    /\ s.t = Ctr(c * BLOCK_BYTES)
    /\ Len(s.h) = c + 1 /\ s.h[1] = param
    /\ \A i \in 1 .. c : s.h[i + 1] = Chunk(all, i)
    /\ c > 0 => s.buf_len > 0

\* Division by what may be any number, and what its results are.
LEMMA DivideBy ==
    ASSUME NEW n \in Nat, NEW d \in Nat \ {0}
    PROVE  /\ n \div d \in Nat /\ n % d \in 0 .. d - 1
           /\ n = (n \div d) * d + (n % d)
OBVIOUS

\* A quotient and a remainder are known by what they make up.
LEMMA QuotientIs ==
    ASSUME NEW n \in Nat, NEW d \in Nat \ {0}, NEW q \in Nat, NEW r \in 0 .. d - 1,
           n = q * d + r
    PROVE  n \div d = q /\ n % d = r
<1>1. n \div d \in Nat /\ n % d \in 0 .. d - 1 /\ n = d * (n \div d) + (n % d)
    OBVIOUS
<1>2. ASSUME NEW u \in Nat, NEW v \in Nat, NEW x \in 0 .. d - 1, NEW y \in 0 .. d - 1,
             u * d + x = v * d + y
      PROVE  ~ (u < v)
    <2>1. SUFFICES ASSUME u < v PROVE FALSE
        OBVIOUS
    <2>2. (u + 1) * d <= v * d
        BY <2>1
    <2>3. (u + 1) * d = u * d + d
        OBVIOUS
    <2>4. u * d \in Nat /\ v * d \in Nat
        OBVIOUS
    <2>5. QED BY <1>2, <2>2, <2>3, <2>4
<1> DEFINE p == n \div d
           s == n % d
<1>3. p \in Nat /\ s \in 0 .. d - 1 /\ n = p * d + s
    BY <1>1
<1> HIDE DEF p, s
<1>4. ~ (p < q) /\ ~ (q < p)
    BY <1>2, <1>3
<1>5. p = q
    BY <1>3, <1>4
<1>6. s = r
    <2>1. q * d \in Nat
        OBVIOUS
    <2>2. QED BY <1>3, <1>5, <2>1
<1>7. QED BY <1>5, <1>6 DEF p, s

\* The counter has the number of bytes in two words: the low word is less than
\* what was added exactly if it has wrapped.
LEMMA CounterAdds ==
    ASSUME Hasher!HashAssumption, NEW n \in Nat, NEW i \in Nat, i <= BLOCK_BYTES
    PROVE  /\ Ctr(n) \in Nat \X Nat
           /\ <<((n % WordBase) + i) % WordBase,
                n \div WordBase + (IF ((n % WordBase) + i) % WordBase < i THEN 1 ELSE 0)>> = Ctr(n + i)
<1> DEFINE q == n \div WordBase
           r == n % WordBase
<1>1. WordBase \in Nat \ {0} /\ i <= WordBase
    BY DEF Hasher!HashAssumption
<1>2. q \in Nat /\ r \in 0 .. WordBase - 1 /\ n = q * WordBase + r
    BY <1>1, DivideBy
<1> HIDE DEF q, r
<1>3. q * WordBase \in Nat /\ (q + 1) * WordBase = q * WordBase + WordBase
    BY <1>1, <1>2
<1>4. CASE r + i < WordBase
    <2>1. n + i = q * WordBase + (r + i) /\ r + i \in 0 .. WordBase - 1
        <3>1. r \in Nat /\ r + i \in Nat
            BY <1>1, <1>2
        <3>2. \A x \in Nat : n = x + r => n + i = x + (r + i)
            BY <3>1
        <3>3. r + i \in 0 .. WordBase - 1
            BY <1>1, <1>4, <3>1
        <3>4. QED BY <1>2, <1>3, <3>2, <3>3
    <2>2. (n + i) \div WordBase = q /\ (n + i) % WordBase = r + i
        <3>1. \A x, p \in Nat, y \in 0 .. WordBase - 1 :
                 x = p * WordBase + y => x \div WordBase = p /\ x % WordBase = y
            BY <1>1, QuotientIs
        <3>2. n + i \in Nat /\ q \in Nat
            BY <1>2
        <3> QED BY <2>1, <3>1, <3>2
    <2>3. r + i \in Nat /\ r + i = 0 * WordBase + (r + i)
        BY <1>1, <2>1
    <2>4. (r + i) % WordBase = r + i
        BY <1>1, <2>1, <2>3, QuotientIs
    <2>5. ~ (r + i < i)
        BY <1>2
    <2>6. QED BY <1>2, <2>2, <2>4, <2>5, <1>1 DEF Ctr, q, r
<1>5. CASE ~ (r + i < WordBase)
    <2>1. n + i = (q + 1) * WordBase + (r + i - WordBase)
          /\ r + i - WordBase \in 0 .. WordBase - 1
        BY <1>1, <1>2, <1>3, <1>5
    <2>2. (n + i) \div WordBase = q + 1 /\ (n + i) % WordBase = r + i - WordBase
        <3>1. \A x, p \in Nat, y \in 0 .. WordBase - 1 :
                 x = p * WordBase + y => x \div WordBase = p /\ x % WordBase = y
            BY <1>1, QuotientIs
        <3>2. n + i \in Nat /\ q + 1 \in Nat
            BY <1>2
        <3> QED BY <2>1, <3>1, <3>2
    <2>3. r + i = 1 * WordBase + (r + i - WordBase) /\ r + i \in Nat
        BY <1>1, <1>2
    <2>4. (r + i) % WordBase = r + i - WordBase
        BY <1>1, <2>1, <2>3, QuotientIs
    <2>5. r + i - WordBase < i
        BY <1>1, <1>2
    <2>6. QED BY <1>2, <2>2, <2>4, <2>5, <1>1 DEF Ctr, q, r
<1>6. QED BY <1>4, <1>5

\* The bytes of the first c blocks.
LEMMA InBlocks ==
    ASSUME Hasher!HashAssumption, NEW c \in Nat, NEW i \in 1 .. c
    PROVE  /\ c * BLOCK_BYTES \in Nat /\ (i - 1) * BLOCK_BYTES \in Nat
           /\ i * BLOCK_BYTES = (i - 1) * BLOCK_BYTES + BLOCK_BYTES
           /\ i * BLOCK_BYTES <= c * BLOCK_BYTES
           /\ \A j \in 1 .. BLOCK_BYTES : (i - 1) * BLOCK_BYTES + j \in 1 .. c * BLOCK_BYTES
<1>1. BLOCK_BYTES \in Nat \ {0}
    BY DEF Hasher!HashAssumption
<1>2. c * BLOCK_BYTES \in Nat /\ (i - 1) * BLOCK_BYTES \in Nat
    BY <1>1
<1>3. i * BLOCK_BYTES = (i - 1) * BLOCK_BYTES + BLOCK_BYTES
    BY <1>1
<1>4. i * BLOCK_BYTES <= c * BLOCK_BYTES
    BY <1>1
<1>5. ASSUME NEW u \in Nat, NEW v \in Nat, u + BLOCK_BYTES <= v, NEW j \in 1 .. BLOCK_BYTES
      PROVE  u + j \in 1 .. v
    BY <1>1, <1>5
<1>6. QED BY <1>2, <1>3, <1>4, <1>5

\* What is appended does not change the blocks before.
LEMMA ChunksKept ==
    ASSUME Hasher!HashAssumption, NEW all \in Seq(Nat), NEW m \in Seq(Nat), NEW c \in Nat,
           c * BLOCK_BYTES <= Len(all), NEW i \in 1 .. c
    PROVE  Chunk(all \o m, i) = Chunk(all, i)
<1>1. \A j \in 1 .. BLOCK_BYTES :
         (all \o m)[(i - 1) * BLOCK_BYTES + j] = all[(i - 1) * BLOCK_BYTES + j]
    <2>1. \A k \in 1 .. Len(all) : (all \o m)[k] = all[k]
        OBVIOUS
    <2>2. ASSUME NEW j \in 1 .. BLOCK_BYTES
          PROVE  (i - 1) * BLOCK_BYTES + j \in 1 .. Len(all)
        <3>1. (i - 1) * BLOCK_BYTES + j \in 1 .. c * BLOCK_BYTES /\ c * BLOCK_BYTES \in Nat
            BY InBlocks
        <3>2. \A k \in 1 .. c * BLOCK_BYTES : k \in 1 .. Len(all)
            BY <3>1
        <3>3. QED BY <3>1, <3>2
    <2>3. QED BY <2>1, <2>2
<1>2. QED BY <1>1 DEF Chunk, BlockAt

\* s with its counter at n bytes.
AtCount(s, n) == [s EXCEPT !.t = Ctr(n)]

\* increment_counter, of a counter at n bytes.
LEMMA Counted ==
    ASSUME Hasher!HashAssumption, NEW param, NEW s \in Hashers(param), NEW n \in Nat,
           s.t = Ctr(n), NEW i \in Nat, i <= BLOCK_BYTES
    PROVE  /\ Hasher!increment_counter(s, i) = AtCount(s, n + i)
           /\ Ctr(n + i) \in Nat \X Nat
<1>1. s.t[1] = n % WordBase /\ s.t[2] = n \div WordBase
    BY DEF Ctr
<1>2. Hasher!increment_counter(s, i)
        = [s EXCEPT !.t = <<((n % WordBase) + i) % WordBase,
                            n \div WordBase + (IF ((n % WordBase) + i) % WordBase < i THEN 1 ELSE 0)>>]
    BY <1>1 DEF Hasher!increment_counter
<1>3. n + i \in Nat
    OBVIOUS
<1>4. Ctr(n + i) \in Nat \X Nat
    <2>1. 0 \in Nat /\ 0 <= BLOCK_BYTES
        BY DEF Hasher!HashAssumption
    <2>2. QED BY <1>3, <2>1, CounterAdds
<1>5. <<((n % WordBase) + i) % WordBase,
        n \div WordBase + (IF ((n % WordBase) + i) % WordBase < i THEN 1 ELSE 0)>> = Ctr(n + i)
    BY CounterAdds
<1>6. QED BY <1>2, <1>4, <1>5 DEF AtCount

\* What is in a concatenation of bytes, and in a part of some.
LEMMA BytesJoined ==
    ASSUME NEW a \in Seq(Nat), NEW b \in Seq(Nat)
    PROVE  /\ a \o b \in Seq(Nat) /\ Len(a \o b) = Len(a) + Len(b)
           /\ \A j \in 1 .. Len(a) : (a \o b)[j] = a[j]
           /\ \A j \in 1 .. Len(b) : (a \o b)[Len(a) + j] = b[j]
OBVIOUS

\* The bytes of a after the first p, up to q.
Part(a, p, q) == SubSeq(a, p + 1, q)

\* A part has the bytes that it is made of.
LEMMA PartIs ==
    ASSUME NEW a \in Seq(Nat), NEW p \in Nat, NEW q \in Nat, p <= q, q <= Len(a)
    PROVE  /\ Part(a, p, q) \in Seq(Nat) /\ Len(Part(a, p, q)) = q - p
           /\ \A j \in 1 .. q - p : Part(a, p, q)[j] = a[p + j]
<1>1. SubSeq(a, p + 1, q) = [j \in 1 .. q - p |-> a[p + j]]
    <2>1. SubSeq(a, p + 1, q) = [j \in 1 .. (q - (p + 1) + 1) |-> a[p + 1 + j - 1]]
        OBVIOUS
    <2>2. q - (p + 1) + 1 = q - p /\ \A j \in 1 .. q - p : p + 1 + j - 1 = p + j
        OBVIOUS
    <2>3. QED BY <2>1, <2>2
<1>2. q - p \in Nat /\ \A j \in 1 .. q - p : a[p + j] \in Nat
    OBVIOUS
<1>3. QED BY <1>1, <1>2 DEF Part

\* The parts that the hasher takes.
LEMMA Cut ==
    ASSUME NEW a \in Seq(Nat), NEW n \in Nat, n <= Len(a)
    PROVE  /\ Hasher!Take(a, n) \in Seq(Nat) /\ Len(Hasher!Take(a, n)) = n
           /\ \A j \in 1 .. n : Hasher!Take(a, n)[j] = a[j]
           /\ Hasher!DropFirst(a, n) \in Seq(Nat) /\ Len(Hasher!DropFirst(a, n)) = Len(a) - n
           /\ \A j \in 1 .. Len(a) - n : Hasher!DropFirst(a, n)[j] = a[n + j]
<1>1. Hasher!Take(a, n) = Part(a, 0, n)
    <2>1. 0 + 1 = 1
        OBVIOUS
    <2>2. QED BY <2>1 DEF Hasher!Take, Part
<1>2. Hasher!DropFirst(a, n) = Part(a, n, Len(a))
    BY DEF Hasher!DropFirst, Part
<1>3. Len(a) \in Nat /\ 0 \in Nat /\ 0 <= n
    OBVIOUS
<1>4. /\ Part(a, 0, n) \in Seq(Nat) /\ Len(Part(a, 0, n)) = n - 0
      /\ \A j \in 1 .. n - 0 : Part(a, 0, n)[j] = a[0 + j]
    BY <1>3, PartIs
<1>5. n - 0 = n /\ \A j \in 1 .. n : 0 + j = j
    OBVIOUS
<1>6. /\ Part(a, 0, n) \in Seq(Nat) /\ Len(Part(a, 0, n)) = n
      /\ \A j \in 1 .. n : Part(a, 0, n)[j] = a[j]
    BY <1>4, <1>5
<1>7. /\ Part(a, n, Len(a)) \in Seq(Nat) /\ Len(Part(a, n, Len(a))) = Len(a) - n
      /\ \A j \in 1 .. Len(a) - n : Part(a, n, Len(a))[j] = a[n + j]
    <2> DEFINE k == Len(a)
    <2>1. k \in Nat /\ n <= k /\ k <= Len(a)
        BY <1>3
    <2> HIDE DEF k
    <2>2. /\ Part(a, n, k) \in Seq(Nat) /\ Len(Part(a, n, k)) = k - n
          /\ \A j \in 1 .. k - n : Part(a, n, k)[j] = a[n + j]
        BY <2>1, PartIs
    <2>3. QED BY <2>2 DEF k
<1>8. QED BY <1>1, <1>2, <1>6, <1>7

\* Bytes that fit go into the buffer.
LEMMA BufferedTaken ==
    ASSUME Hasher!HashAssumption, NEW param, NEW s, NEW all, NEW c, Taken(s, param, all, c),
           NEW m \in Seq(Nat), s.buf_len + Len(m) <= 2 * BLOCK_BYTES
    PROVE  /\ Taken(Hasher!Buffered(s, m), param, all \o m, c)
           /\ Hasher!Buffered(s, m).buf_len = s.buf_len + Len(m)
<1> DEFINE t == Hasher!Buffered(s, m)
           b == s.buf
           n == s.buf_len
           u == Hasher!Take(b, n)
           v == Hasher!DropFirst(b, n + Len(m))
<1>1. /\ s \in Hashers(param) /\ b \in Seq(Nat) /\ n \in Nat /\ Len(b) = 2 * BLOCK_BYTES
      /\ n <= Len(b) /\ all \in Seq(Nat) /\ c \in Nat /\ BLOCK_BYTES \in Nat \ {0}
    BY DEF Taken, Hashers, Hasher!HashAssumption
<1>0. Len(m) \in Nat /\ n + Len(m) \in Nat /\ n + Len(m) <= Len(b) /\ Len(b) \in Nat
    BY <1>1
<1>2. /\ u \in Seq(Nat) /\ Len(u) = n /\ \A j \in 1 .. n : u[j] = b[j]
      /\ v \in Seq(Nat) /\ Len(v) = Len(b) - (n + Len(m))
    <2> HIDE DEF b, n
    <2>1. u \in Seq(Nat) /\ Len(u) = n /\ \A j \in 1 .. n : u[j] = b[j]
        BY <1>1, Cut
    <2>2. v \in Seq(Nat) /\ Len(v) = Len(b) - (n + Len(m))
        BY <1>0, <1>1, Cut
    <2>3. QED BY <2>1, <2>2
<1>3. t = [s EXCEPT !.buf = u \o m \o v, !.buf_len = n + Len(m)]
    BY DEF Hasher!Buffered
<1> DEFINE w == u \o m \o v
<1>4. /\ w \in Seq(Nat) /\ Len(w) = 2 * BLOCK_BYTES
      /\ \A j \in 1 .. n : w[j] = b[j]
      /\ \A j \in 1 .. Len(m) : w[n + j] = m[j]
    <2> HIDE DEF u, v, b, n
    <2>0. \A x, y \in Seq(Nat) :
             /\ x \o y \in Seq(Nat) /\ Len(x \o y) = Len(x) + Len(y)
             /\ \A j \in 1 .. Len(x) : (x \o y)[j] = x[j]
             /\ \A j \in 1 .. Len(y) : (x \o y)[Len(x) + j] = y[j]
        BY BytesJoined
    <2> DEFINE um == u \o m
    <2>1. /\ um \in Seq(Nat) /\ Len(um) = n + Len(m)
          /\ \A j \in 1 .. n : um[j] = u[j]
          /\ \A j \in 1 .. Len(m) : um[n + j] = m[j]
        <3>1. u \in Seq(Nat) /\ m \in Seq(Nat) /\ Len(u) = n
            BY <1>2
        <3>2. QED BY <3>1, <2>0
    <2> HIDE DEF um
    <2>2. /\ um \o v \in Seq(Nat) /\ Len(um \o v) = Len(um) + Len(v)
          /\ \A j \in 1 .. n + Len(m) : (um \o v)[j] = um[j]
        <3>1. /\ um \o v \in Seq(Nat) /\ Len(um \o v) = Len(um) + Len(v)
              /\ \A j \in 1 .. Len(um) : (um \o v)[j] = um[j]
            BY <1>2, <2>0, <2>1
        <3>2. QED BY <2>1, <3>1
    <2>3. Len(um) + Len(v) = Len(b)
        BY <1>0, <1>1, <1>2, <2>1
    <2>6. /\ \A j \in 1 .. n : j \in 1 .. n + Len(m)
          /\ \A j \in 1 .. Len(m) : n + j \in 1 .. n + Len(m)
        BY <1>1, <1>0
    <2>7. w = um \o v
        BY DEF um
    <2>8. \A j \in 1 .. n : w[j] = b[j]
        BY <1>2, <2>1, <2>2, <2>6, <2>7
    <2>9. \A j \in 1 .. Len(m) : w[n + j] = m[j]
        BY <2>1, <2>2, <2>6, <2>7
    <2>10. QED BY <1>1, <2>2, <2>3, <2>7, <2>8, <2>9
<1> HIDE DEF w, u, v, t
<1>5. /\ t \in Hashers(param) /\ t.f = s.f /\ t.h = s.h /\ t.t = s.t
      /\ t.buf = w /\ t.buf_len = n + Len(m)
    <2>1. n + Len(m) \in Nat
        BY <1>1
    <2>2. t = [h |-> s.h, t |-> s.t, f |-> s.f, buf |-> w, buf_len |-> n + Len(m)]
        BY <1>1, <1>3 DEF Hashers, w
    <2>3. /\ s.h \in Seq(Links(param)) /\ s.t \in Nat \X Nat /\ s.f \in BOOLEAN
        BY <1>1 DEF Hashers
    <2>4. t \in Hashers(param)
        BY <1>4, <2>1, <2>2, <2>3 DEF Hashers
    <2>5. QED BY <2>2, <2>4
<1> HIDE DEF b
<1>6. c * BLOCK_BYTES \in Nat
    BY <1>1
<1>7. Len(all) = c * BLOCK_BYTES + n /\ \A j \in 1 .. n : b[j] = all[c * BLOCK_BYTES + j]
    BY DEF Taken, b
<1> DEFINE cb == c * BLOCK_BYTES
<1>8. cb \in Nat /\ Len(all) = cb + n /\ \A j \in 1 .. n : b[j] = all[cb + j]
    BY <1>6, <1>7
<1> HIDE DEF cb, n
<1>9. /\ all \o m \in Seq(Nat) /\ Len(all \o m) = cb + (n + Len(m))
      /\ \A j \in 1 .. n + Len(m) : w[j] = (all \o m)[cb + j]
    <2>1. Len(m) \in Nat /\ n \in Nat
        BY <1>1
    <2>2. /\ all \o m \in Seq(Nat) /\ Len(all \o m) = Len(all) + Len(m)
          /\ \A j \in 1 .. Len(all) : (all \o m)[j] = all[j]
          /\ \A j \in 1 .. Len(m) : (all \o m)[Len(all) + j] = m[j]
        BY <1>1
    <2>3. ASSUME NEW j \in 1 .. n + Len(m) PROVE w[j] = (all \o m)[cb + j]
        <3>1. CASE j <= n
            <4>1. j \in 1 .. n /\ cb + j \in 1 .. Len(all)
                BY <1>8, <2>1, <3>1
            <4>2. QED BY <1>4, <1>8, <2>2, <4>1
        <3>2. CASE j > n
            <4>1. PICK i \in 1 .. Len(m) : j = n + i
                <5>1. j - n \in 1 .. Len(m) /\ j = n + (j - n)
                    BY <2>1, <3>2
                <5>2. QED BY <5>1
            <4>2. cb + j = Len(all) + i
                BY <1>8, <2>1, <4>1
            <4>3. (all \o m)[cb + j] = (all \o m)[Len(all) + i]
                BY <4>2
            <4>4. (all \o m)[Len(all) + i] = m[i]
                BY <2>2, <4>1
            <4>5. w[j] = m[i]
                BY <1>4, <4>1
            <4>6. QED BY <4>3, <4>4, <4>5
        <3>3. j <= n \/ j > n
            BY <2>1
        <3>4. QED BY <3>1, <3>2, <3>3
    <2>4. QED BY <1>8, <2>1, <2>2, <2>3
<1>10. \A i \in 1 .. c : Chunk(all \o m, i) = Chunk(all, i)
    <2>1. c * BLOCK_BYTES <= Len(all)
        BY <1>1, <1>8 DEF cb
    <2>2. QED BY <1>1, <2>1, ChunksKept
<1>11. /\ s.f = FALSE /\ s.t = Ctr(cb) /\ Len(s.h) = c + 1 /\ s.h[1] = param
       /\ \A i \in 1 .. c : s.h[i + 1] = Chunk(all, i)
       /\ c > 0 => n > 0
    BY DEF Taken, cb, n
<1>12. c > 0 => n + Len(m) > 0
    <2>1. n \in Nat /\ Len(m) \in Nat
        BY <1>1
    <2>2. QED BY <1>11, <2>1
<1>13. Taken(t, param, all \o m, c)
    <2>1. t.buf_len <= 2 * BLOCK_BYTES
        BY <1>5 DEF n
    <2>2. QED BY <1>1, <1>4, <1>5, <1>9, <1>10, <1>11, <1>12, <2>1 DEF Taken, cb
<1>14. QED BY <1>5, <1>13 DEF t, n

\* When the buffer holds more than a block, its first block is compressed.
LEMMA CompressTaken ==
    ASSUME Hasher!HashAssumption, NEW param, NEW s, NEW all, NEW c, Taken(s, param, all, c),
           s.buf_len > BLOCK_BYTES
    PROVE  /\ Taken(Hasher!CompressFirst(s), param, all, c + 1)
           /\ Hasher!CompressFirst(s).buf_len = s.buf_len - BLOCK_BYTES
<1> DEFINE B == BLOCK_BYTES
           b == s.buf
           n == s.buf_len
           cb == c * B
           d == Hasher!DropFirst(b, B)
           e == Hasher!Take(b, B)
           t == Hasher!CompressFirst(s)
<1>1. /\ s \in Hashers(param) /\ b \in Seq(Nat) /\ n \in Nat /\ Len(b) = 2 * B
      /\ n <= 2 * B /\ n > B /\ all \in Seq(Nat) /\ c \in Nat /\ B \in Nat \ {0}
      /\ s.h \in Seq(Links(param)) /\ s.f = FALSE
    BY DEF Taken, Hashers, Hasher!HashAssumption
<1>2. /\ cb \in Nat /\ (c + 1) * B = cb + B /\ ((c + 1) - 1) * B = cb
    BY <1>1
<1>3. /\ Len(all) = cb + n /\ \A j \in 1 .. n : b[j] = all[cb + j]
      /\ s.t = Ctr(cb) /\ Len(s.h) = c + 1 /\ s.h[1] = param
      /\ \A i \in 1 .. c : s.h[i + 1] = Chunk(all, i)
    BY DEF Taken
<1>4. /\ Hasher!increment_counter(s, B) = AtCount(s, cb + B)
      /\ Ctr(cb + B) \in Nat \X Nat
    <2>1. \A k \in Nat : s.t = Ctr(k) => /\ Hasher!increment_counter(s, B) = AtCount(s, k + B)
                                         /\ Ctr(k + B) \in Nat \X Nat
        <3>1. B \in Nat /\ B <= BLOCK_BYTES
            BY <1>1
        <3>2. QED BY <1>1, <3>1, Counted
    <2> HIDE DEF cb
    <2>2. QED BY <1>2, <1>3, <2>1
<1> HIDE DEF b, n
<1>5. /\ e \in Seq(Nat) /\ Len(e) = B /\ \A j \in 1 .. B : e[j] = b[j]
      /\ d \in Seq(Nat) /\ Len(d) = B /\ \A j \in 1 .. B : d[j] = b[B + j]
    <2>1. B \in Nat /\ B <= Len(b) /\ Len(b) - B = B
        BY <1>1
    <2>2. /\ e \in Seq(Nat) /\ Len(e) = B /\ \A j \in 1 .. B : e[j] = b[j]
          /\ d \in Seq(Nat) /\ Len(d) = Len(b) - B
          /\ \A j \in 1 .. Len(b) - B : d[j] = b[B + j]
        BY <1>1, <2>1, Cut
    <2>3. QED BY <2>1, <2>2
<1> DEFINE new == [block |-> e, t |-> Ctr(cb + B), f |-> FALSE]
<1>6. t = [h |-> Append(s.h, new), t |-> Ctr(cb + B), f |-> FALSE,
           buf |-> d \o d, buf_len |-> n - B]
    <2> DEFINE r == [h |-> s.h, t |-> s.t, f |-> FALSE, buf |-> b, buf_len |-> n]
               k == Ctr(cb + B)
               r2 == [h |-> s.h, t |-> k, f |-> FALSE, buf |-> b, buf_len |-> n]
               r3 == [h |-> Append(s.h, new), t |-> k, f |-> FALSE, buf |-> b, buf_len |-> n]
    <2>1. s = r
        BY <1>1 DEF Hashers, b, n
    <2>2. AtCount(r, cb + B) = r2
        <3>1. \A h0, t0, f0, b0, n0, x :
                 [[h |-> h0, t |-> t0, f |-> f0, buf |-> b0, buf_len |-> n0] EXCEPT !.t = x]
                   = [h |-> h0, t |-> x, f |-> f0, buf |-> b0, buf_len |-> n0]
            OBVIOUS
        <3>2. AtCount(r, cb + B) = [r EXCEPT !.t = k]
            BY DEF AtCount
        <3> HIDE DEF k
        <3>3. QED BY <3>1, <3>2
    <2>3. Hasher!increment_counter(s, B) = r2
        <3> HIDE DEF r, r2
        <3>1. QED BY <1>4, <2>1, <2>2
    <2>4. Hasher!compress(r2) = r3
        <3> HIDE DEF k
        <3>1. r2.buf = b /\ r2.t = k /\ r2.f = FALSE /\ r2.h = s.h
            OBVIOUS
        <3>2. Hasher!compress(r2) = [r2 EXCEPT !.h = Append(s.h, new)]
            BY <3>1 DEF Hasher!compress, k
        <3>3. QED BY <3>2
    <2>5. t = [r3 EXCEPT !.buf = d \o d, !.buf_len = n - B]
        <3>1. r3.buf = b /\ r3.buf_len = n
            OBVIOUS
        <3> HIDE DEF r2, r3
        <3>2. QED BY <2>3, <2>4, <3>1 DEF Hasher!CompressFirst
    <2>6. QED BY <2>5
<1> HIDE DEF t, d, e, cb
<1>7. new = Chunk(all, c + 1)
    <2>1. \A j \in 1 .. B : j \in 1 .. n
        BY <1>1
    <2>2. \A j \in 1 .. B : e[j] = all[cb + j]
        BY <1>3, <1>5, <2>1
    <2>3. e = [j \in 1 .. B |-> e[j]]
        BY <1>5
    <2>4. e = [j \in 1 .. B |-> all[cb + j]]
        BY <2>2, <2>3
    <2>5. Chunk(all, c + 1)
            = [block |-> [j \in 1 .. B |-> all[cb + j]], t |-> Ctr(cb + B), f |-> FALSE]
        <3>1. Chunk(all, c + 1) = BlockAt(all, ((c + 1) - 1) * B, (c + 1) * B)
            BY DEF Chunk
        <3>2. Chunk(all, c + 1) = BlockAt(all, cb, cb + B)
            BY <1>2, <3>1
        <3>3. QED BY <3>2 DEF BlockAt
    <2>6. QED BY <2>4, <2>5
<1>8. /\ d \o d \in Seq(Nat) /\ Len(d \o d) = 2 * B
      /\ \A j \in 1 .. B : (d \o d)[j] = d[j]
    <2>1. /\ d \o d \in Seq(Nat) /\ Len(d \o d) = Len(d) + Len(d)
          /\ \A j \in 1 .. Len(d) : (d \o d)[j] = d[j]
        BY <1>5, BytesJoined
    <2>2. B + B = 2 * B
        BY <1>1
    <2>3. QED BY <1>5, <2>1, <2>2
<1> HIDE DEF new
<1>9. \A j \in 1 .. n - B : (d \o d)[j] = all[(c + 1) * B + j]
    <2>1. SUFFICES ASSUME NEW j \in 1 .. n - B
                   PROVE  (d \o d)[j] = all[(c + 1) * B + j]
        OBVIOUS
    <2>2. j \in 1 .. B /\ B + j \in 1 .. n /\ cb + (B + j) = (cb + B) + j
        BY <1>1, <1>2
    <2>3. (d \o d)[j] = b[B + j]
        BY <1>5, <1>8, <2>2
    <2>4. b[B + j] = all[cb + (B + j)]
        BY <1>3, <2>2
    <2>5. QED BY <1>2, <2>2, <2>3, <2>4
<1>10. n - B \in Nat /\ n - B > 0 /\ n - B <= 2 * B /\ c + 1 \in Nat
       /\ Len(all) = (c + 1) * B + (n - B)
    BY <1>1, <1>2, <1>3
<1>11. t \in Hashers(param)
    <2>1. new \in Links(param)
        BY <1>4, <1>5 DEF new, Links
    <2>2. Append(s.h, new) \in Seq(Links(param))
        BY <1>1, <2>1
    <2>3. QED BY <1>4, <1>6, <1>8, <1>10, <2>2 DEF Hashers
<1>12. /\ Len(t.h) = (c + 1) + 1 /\ t.h[1] = param
       /\ \A i \in 1 .. c + 1 : t.h[i + 1] = Chunk(all, i)
    <2> DEFINE g == s.h
    <2>1. g \in Seq(Links(param)) /\ Len(g) = c + 1 /\ t.h = Append(g, new) /\ c \in Nat
        BY <1>1, <1>3, <1>6
    <2>2. g[1] = param /\ \A i \in 1 .. c : g[i + 1] = Chunk(all, i)
        BY <1>3
    <2> HIDE DEF g
    <2>3. /\ Len(t.h) = c + 2 /\ \A i \in 1 .. c + 1 : t.h[i] = g[i]
          /\ t.h[c + 2] = new
        BY <2>1
    <2>4. 1 \in 1 .. c + 1 /\ (c + 1) + 1 = c + 2 /\ \A i \in 1 .. c : i + 1 \in 1 .. c + 1
        BY <2>1
    <2>5. ASSUME NEW i \in 1 .. c + 1 PROVE t.h[i + 1] = Chunk(all, i)
        <3>1. CASE i = c + 1
            BY <1>7, <2>3, <2>4, <3>1
        <3>2. CASE i # c + 1
            <4>1. i \in 1 .. c
                BY <2>1, <3>2
            <4>2. QED BY <2>2, <2>3, <2>4, <4>1
        <3>3. QED BY <3>1, <3>2
    <2>6. QED BY <2>2, <2>3, <2>4, <2>5
<1>13. /\ t.f = FALSE /\ t.buf = d \o d /\ t.buf_len = n - B /\ t.t = Ctr((c + 1) * B)
    BY <1>2, <1>6
<1>14. Taken(t, param, all, c + 1)
    BY <1>1, <1>8, <1>9, <1>10, <1>11, <1>12, <1>13 DEF Taken
<1>15. QED BY <1>13, <1>14 DEF t, n

\* A sequence is its first n members and the others.
LEMMA CutJoined ==
    ASSUME NEW a \in Seq(Nat), NEW n \in Nat, n <= Len(a)
    PROVE  Hasher!Take(a, n) \o Hasher!DropFirst(a, n) = a
<1> DEFINE u == Hasher!Take(a, n)
           v == Hasher!DropFirst(a, n)
<1>1. /\ u \in Seq(Nat) /\ Len(u) = n /\ \A j \in 1 .. n : u[j] = a[j]
      /\ v \in Seq(Nat) /\ Len(v) = Len(a) - n /\ \A j \in 1 .. Len(a) - n : v[j] = a[n + j]
    BY Cut
<1> HIDE DEF u, v
<1>2. /\ u \o v \in Seq(Nat) /\ Len(u \o v) = Len(u) + Len(v)
      /\ \A j \in 1 .. Len(u) : (u \o v)[j] = u[j]
      /\ \A j \in 1 .. Len(v) : (u \o v)[Len(u) + j] = v[j]
    BY <1>1, BytesJoined
<1>3. Len(a) \in Nat /\ Len(u \o v) = Len(a)
    BY <1>1, <1>2
<1>4. ASSUME NEW j \in 1 .. Len(a) PROVE (u \o v)[j] = a[j]
    <2>1. CASE j <= n
        <3>1. j \in 1 .. n
            BY <1>3, <2>1
        <3>2. QED BY <1>1, <1>2, <3>1
    <2>2. CASE j > n
        <3>1. PICK i \in 1 .. Len(a) - n : j = n + i
            <4>1. j - n \in 1 .. Len(a) - n /\ j = n + (j - n)
                BY <1>3, <2>2
            <4>2. QED BY <4>1
        <3>2. (u \o v)[n + i] = v[i]
            BY <1>1, <1>2
        <3>3. QED BY <1>1, <3>1, <3>2
    <2>3. j <= n \/ j > n
        BY <1>3
    <2>4. QED BY <2>1, <2>2, <2>3
<1>5. \A q \in Seq(Nat) : q = [j \in 1 .. Len(q) |-> q[j]]
    OBVIOUS
<1> DEFINE w == u \o v
<1>6. w \in Seq(Nat) /\ Len(w) = Len(a) /\ \A j \in 1 .. Len(a) : w[j] = a[j]
    BY <1>2, <1>3, <1>4
<1> HIDE DEF w
<1>7. w = [j \in 1 .. Len(a) |-> w[j]] /\ a = [j \in 1 .. Len(a) |-> a[j]]
    BY <1>5, <1>6
<1>8. w = a
    BY <1>6, <1>7
<1>9. QED BY <1>8 DEF u, v, w

\* After some turns on m: p.s was given the part of it that is not left in p.m.
Turned(p, param, all, m) ==
    /\ p.m \in Seq(Nat)
    /\ \E x \in Seq(Nat), d \in Nat : x \o p.m = m /\ Taken(p.s, param, all \o x, d)

\* A turn takes all there is, or leaves a full block in the buffer.
LEMMA TurnTaken ==
    ASSUME Hasher!HashAssumption, NEW param, NEW s, NEW all, NEW c, Taken(s, param, all, c),
           NEW m \in Seq(Nat)
    PROVE  /\ Turned(Hasher!Turn(s, m), param, all, m)
           /\ \/ Hasher!Turn(s, m).m = <<>>
              \/ /\ Hasher!Turn(s, m).s.buf_len = BLOCK_BYTES
                 /\ s.buf_len = BLOCK_BYTES => Len(Hasher!Turn(s, m).m) < Len(m)
<1> DEFINE B == BLOCK_BYTES
           fill == 2 * B - s.buf_len
           p == Hasher!Turn(s, m)
<1>1. /\ B \in Nat \ {0} /\ s.buf_len \in Nat /\ s.buf_len <= 2 * B /\ fill \in Nat
      /\ Len(m) \in Nat /\ all \in Seq(Nat) /\ c \in Nat /\ s.buf_len + fill = 2 * B
    <2>1. B \in Nat \ {0} /\ s.buf_len \in Nat /\ s.buf_len <= 2 * B
        BY DEF Taken, Hashers, Hasher!HashAssumption
    <2>2. all \in Seq(Nat) /\ c \in Nat
        BY DEF Taken
    <2>3. fill \in Nat /\ s.buf_len + fill = 2 * B
        BY <2>1
    <2>4. QED BY <2>1, <2>2, <2>3
<1>2. CASE Len(m) > fill
    <2> DEFINE x == Hasher!Take(m, fill)
               y == Hasher!DropFirst(m, fill)
               t == Hasher!Buffered(s, x)
    <2>1. p = [s |-> Hasher!CompressFirst(t), m |-> y]
        BY <1>2 DEF Hasher!Turn, Hasher!MustCompress
    <2> HIDE DEF p, t
    <2>2. x \in Seq(Nat) /\ Len(x) = fill /\ y \in Seq(Nat) /\ Len(y) = Len(m) - fill
        <3> HIDE DEF fill
        <3>1. QED BY <1>1, <1>2, Cut
    <2>3. x \o y = m
        <3> HIDE DEF fill
        <3>1. m \in Seq(Nat) /\ fill \in Nat /\ fill <= Len(m)
            BY <1>1, <1>2
        <3>2. QED BY <3>1, CutJoined
    <2> HIDE DEF x, y
    <2>4. Taken(t, param, all \o x, c) /\ t.buf_len = 2 * B
        <3>1. s.buf_len + Len(x) = 2 * B
            BY <1>1, <2>2
        <3>2. Taken(t, param, all \o x, c) /\ t.buf_len = s.buf_len + Len(x)
            BY <1>1, <2>2, <3>1, BufferedTaken DEF t
        <3>3. QED BY <3>1, <3>2
    <2>5. /\ Taken(Hasher!CompressFirst(t), param, all \o x, c + 1)
          /\ Hasher!CompressFirst(t).buf_len = B
        <3>1. t.buf_len > BLOCK_BYTES /\ t.buf_len - BLOCK_BYTES = B
            BY <1>1, <2>4
        <3>2. QED BY <2>4, <3>1, CompressTaken
    <2>6. p.s = Hasher!CompressFirst(t) /\ p.m = y
        BY <2>1
    <2>7. Turned(p, param, all, m)
        <3>1. c + 1 \in Nat
            BY <1>1
        <3>2. QED BY <2>2, <2>3, <2>5, <2>6, <3>1 DEF Turned
    <2>8. s.buf_len = B => Len(y) < Len(m)
        BY <1>1, <1>2, <2>2
    <2>9. QED BY <2>5, <2>6, <2>7, <2>8 DEF p
<1>3. CASE ~ (Len(m) > fill)
    <2> DEFINE t == Hasher!Buffered(s, m)
    <2>1. p = [s |-> t, m |-> <<>>]
        BY <1>3 DEF Hasher!Turn, Hasher!MustCompress
    <2> HIDE DEF p, t
    <2>2. p.s = t /\ p.m = <<>>
        BY <2>1
    <2>3. Taken(t, param, all \o m, c)
        <3>1. s.buf_len + Len(m) <= 2 * B
            BY <1>1, <1>3
        <3>2. QED BY <3>1, BufferedTaken DEF t
    <2>4. m \o <<>> = m /\ <<>> \in Seq(Nat)
        OBVIOUS
    <2>5. Turned(p, param, all, m)
        BY <1>1, <2>2, <2>3, <2>4 DEF Turned
    <2>6. QED BY <2>2, <2>5 DEF p
<1>4. QED BY <1>2, <1>3

\* Concatenation is associative.
LEMMA BytesAssociate ==
    ASSUME NEW a \in Seq(Nat), NEW b \in Seq(Nat), NEW z \in Seq(Nat)
    PROVE  (a \o b) \o z = a \o (b \o z)
<1> DEFINE N == Nat
           Join(u, v) == u \o v
<1>1. a \in Seq(N) /\ b \in Seq(N) /\ z \in Seq(N)
    OBVIOUS
<1>2. \A S : \A u, v, w \in Seq(S) : Join(Join(u, v), w) = Join(u, Join(v, w))
    BY ConcatAssociative
<1> HIDE DEF N, Join
<1>3. \A u, v, w \in Seq(N) : Join(Join(u, v), w) = Join(u, Join(v, w))
    BY <1>2
<1>4. Join(Join(a, b), z) = Join(a, Join(b, z))
    BY <1>1, <1>3
<1>5. QED BY <1>4 DEF Join

\* One turn more, if anything is left.
Step(p) == IF p.m = <<>> THEN p ELSE Hasher!Turn(p.s, p.m)

\* A turn more keeps the bytes together: what was taken and what is left.
LEMMA StepTurned ==
    ASSUME Hasher!HashAssumption, NEW param, NEW p, NEW all, NEW m \in Seq(Nat),
           all \in Seq(Nat), Turned(p, param, all, m)
    PROVE  /\ Turned(Step(p), param, all, m)
           /\ \/ Step(p).m = <<>>
              \/ /\ Step(p).s.buf_len = BLOCK_BYTES
                 /\ p.s.buf_len = BLOCK_BYTES => Len(Step(p).m) < Len(p.m)
<1>1. CASE p.m = <<>>
    BY <1>1 DEF Step
<1>2. CASE p.m # <<>>
    <2>1. PICK x \in Seq(Nat), d \in Nat : x \o p.m = m /\ Taken(p.s, param, all \o x, d)
        BY DEF Turned
    <2> DEFINE q == Hasher!Turn(p.s, p.m)
    <2>2. Step(p) = q
        BY <1>2 DEF Step
    <2>3. p.m \in Seq(Nat)
        BY DEF Turned
    <2>4. /\ Turned(q, param, all \o x, p.m)
          /\ \/ q.m = <<>>
             \/ /\ q.s.buf_len = BLOCK_BYTES
                /\ p.s.buf_len = BLOCK_BYTES => Len(q.m) < Len(p.m)
        BY <2>1, <2>3, TurnTaken
    <2> HIDE DEF q
    <2>5. PICK y \in Seq(Nat), e \in Nat :
            y \o q.m = p.m /\ Taken(q.s, param, (all \o x) \o y, e)
        BY <2>4 DEF Turned
    <2>6. q.m \in Seq(Nat)
        BY <2>4 DEF Turned
    <2>7. \A a, b, z \in Seq(Nat) : (a \o b) \o z = a \o (b \o z)
        BY BytesAssociate
    <2>8. (all \o x) \o y = all \o (x \o y)
        BY <2>7
    <2>9. (x \o y) \o q.m = m
        <3> DEFINE w == q.m
        <3>1. w \in Seq(Nat) /\ y \o w = p.m
            BY <2>5, <2>6
        <3> HIDE DEF w
        <3>2. (x \o y) \o w = x \o (y \o w)
            BY <2>7, <3>1
        <3>3. QED BY <2>1, <3>1, <3>2 DEF w
    <2>10. x \o y \in Seq(Nat)
        BY BytesJoined
    <2>11. Turned(q, param, all, m)
        BY <2>5, <2>6, <2>8, <2>9, <2>10 DEF Turned
    <2>12. QED BY <2>2, <2>4, <2>11
<1>3. QED BY <1>1, <1>2

\* The turns of update on m: f is a function that counts them, from any start.
Loop(f, s, m) == f = [i \in Nat |-> IF i = 0 THEN [s |-> s, m |-> m] ELSE Step(f[i - 1])]

\* update is what the loop has after one turn more than there are bytes.
LEMMA UpdateIs ==
    ASSUME NEW s, NEW m
    PROVE  Hasher!update(s, m) = (CHOOSE f : Loop(f, s, m))[Len(m) + 1].s
BY DEF Hasher!update, Loop, Step

\* The first n turns.
Turns(f, n, s, m) ==
    f = [i \in 0 .. n |-> IF i = 0 THEN [s |-> s, m |-> m] ELSE Step(f[i - 1])]

\* The turns up to any number are a function.
LEMMA TurnsExist ==
    ASSUME NEW n \in Nat, NEW s, NEW m
    PROVE  \E f : Turns(f, n, s, m)
<1> DEFINE T == {k \in Nat : ~ \E f : Turns(f, k, s, m)}
<1>1. SUFFICES ASSUME T # {} PROVE FALSE
    OBVIOUS
<1>2. PICK k \in T : \A j \in T : k <= j
    BY <1>1, LeastNatural
<1>3. k # 0
    <2> DEFINE f == [i \in 0 .. 0 |-> [s |-> s, m |-> m]]
    <2>1. f = [i \in 0 .. 0 |-> IF i = 0 THEN [s |-> s, m |-> m] ELSE Step(f[i - 1])]
        <3>1. \A i \in 0 .. 0 : i = 0
            OBVIOUS
        <3>2. QED BY <3>1
    <2>2. Turns(f, 0, s, m)
        BY <2>1 DEF Turns
    <2>3. QED BY <2>2
<1>4. k - 1 \in Nat /\ ~ (k <= k - 1) /\ k \in Nat
    BY <1>3
<1>5. PICK f : Turns(f, k - 1, s, m)
    BY <1>2, <1>4
<1> DEFINE a == [s |-> s, m |-> m]
           g == [i \in 0 .. k |-> IF i = k THEN Step(f[k - 1]) ELSE f[i]]
<1> HIDE DEF a
<1>6. \A i \in 0 .. k - 1 : f[i] = IF i = 0 THEN a ELSE Step(f[i - 1])
    BY <1>5 DEF Turns, a
<1>7. ASSUME NEW i \in 0 .. k PROVE g[i] = IF i = 0 THEN a ELSE Step(g[i - 1])
    <2>1. CASE i = k
        <3>1. i # 0 /\ k - 1 \in 0 .. k /\ k - 1 # k /\ g[i] = Step(f[k - 1])
            BY <1>3, <1>4, <2>1
        <3>2. g[k - 1] = f[k - 1]
            BY <3>1
        <3>3. QED BY <2>1, <3>1, <3>2
    <2>2. CASE i # k
        <3>1. i \in 0 .. k - 1 /\ g[i] = f[i]
            BY <1>4, <2>2
        <3>2. i # 0 => i - 1 \in 0 .. k /\ i - 1 # k
            BY <1>4, <3>1
        <3>3. i # 0 => g[i - 1] = f[i - 1]
            BY <3>2
        <3> HIDE DEF g
        <3>4. QED BY <1>6, <3>1, <3>3
    <2>3. QED BY <2>1, <2>2
<1>8. g = [i \in 0 .. k |-> g[i]]
    OBVIOUS
<1> HIDE DEF g
<1>9. g = [i \in 0 .. k |-> IF i = 0 THEN a ELSE Step(g[i - 1])]
    BY <1>7, <1>8
<1>10. Turns(g, k, s, m)
    BY <1>9 DEF Turns, a
<1>11. QED BY <1>10

\* Two such functions agree on the turns that both have.
LEMMA TurnsAgree ==
    ASSUME NEW k \in Nat, NEW n \in Nat, NEW s, NEW m, NEW f, NEW g,
           Turns(f, k, s, m), Turns(g, n, s, m), NEW i \in Nat, i <= k, i <= n
    PROVE  f[i] = g[i]
<1> DEFINE a == [s |-> s, m |-> m]
           T == {j \in Nat : j <= k /\ j <= n /\ f[j] # g[j]}
<1> HIDE DEF a
<1>1. SUFFICES ASSUME T # {} PROVE FALSE
    OBVIOUS
<1>2. PICK j \in T : \A h \in T : j <= h
    BY <1>1, LeastNatural
<1>3. /\ \A h \in 0 .. k : f[h] = IF h = 0 THEN a ELSE Step(f[h - 1])
      /\ \A h \in 0 .. n : g[h] = IF h = 0 THEN a ELSE Step(g[h - 1])
    BY DEF Turns, a
<1>4. j \in 0 .. k /\ j \in 0 .. n /\ f[j] # g[j]
    OBVIOUS
<1>5. j # 0
    BY <1>3, <1>4
<1>6. j - 1 \in Nat /\ j - 1 <= k /\ j - 1 <= n /\ ~ (j <= j - 1)
    BY <1>4, <1>5
<1>7. f[j - 1] = g[j - 1]
    BY <1>2, <1>6
<1>8. QED BY <1>3, <1>4, <1>5, <1>7

\* So there is one of all the turns.
LEMMA LoopExists ==
    ASSUME NEW s, NEW m
    PROVE  \E f : Loop(f, s, m)
<1> DEFINE run(n) == CHOOSE f : Turns(f, n, s, m)
           f == [n \in Nat |-> run(n)[n]]
           a == [s |-> s, m |-> m]
<1>1. \A n \in Nat : Turns(run(n), n, s, m)
    BY TurnsExist
<1> HIDE DEF a, run
<1>2. ASSUME NEW n \in Nat PROVE f[n] = IF n = 0 THEN a ELSE Step(f[n - 1])
    <2>1. \A h \in 0 .. n : run(n)[h] = IF h = 0 THEN a ELSE Step(run(n)[h - 1])
        BY <1>1 DEF Turns, a
    <2>2. n \in 0 .. n
        OBVIOUS
    <2>3. run(n)[n] = IF n = 0 THEN a ELSE Step(run(n)[n - 1])
        BY <2>1, <2>2
    <2>4. CASE n = 0
        BY <2>3, <2>4
    <2>5. CASE n # 0
        <3>1. n - 1 \in Nat /\ n - 1 <= n /\ n - 1 <= n - 1
            BY <2>5
        <3>2. run(n)[n - 1] = run(n - 1)[n - 1]
            <4>1. Turns(run(n), n, s, m) /\ Turns(run(n - 1), n - 1, s, m)
                BY <1>1, <3>1
            <4>2. QED BY <3>1, <4>1, TurnsAgree
        <3>3. f[n] = run(n)[n] /\ f[n - 1] = run(n - 1)[n - 1]
            BY <3>1
        <3>4. QED BY <2>3, <2>5, <3>2, <3>3
    <2>6. QED BY <2>4, <2>5
<1>3. f = [n \in Nat |-> f[n]]
    OBVIOUS
<1> HIDE DEF f
<1>4. f = [i \in Nat |-> IF i = 0 THEN a ELSE Step(f[i - 1])]
    BY <1>2, <1>3
<1>5. Loop(f, s, m)
    BY <1>4 DEF Loop, a
<1>6. QED BY <1>5

\* What is left is never more than there was; when nothing is, all was taken.
LEMMA TurnedLeaves ==
    ASSUME NEW param, NEW p, NEW all, NEW m \in Seq(Nat), Turned(p, param, all, m)
    PROVE  /\ p.m \in Seq(Nat) /\ Len(p.m) <= Len(m)
           /\ p.m = <<>> => \E d \in Nat : Taken(p.s, param, all \o m, d)
<1>1. PICK x \in Seq(Nat), d \in Nat :
         p.m \in Seq(Nat) /\ x \o p.m = m /\ Taken(p.s, param, all \o x, d)
    BY DEF Turned
<1> DEFINE y == p.m
<1>2. y \in Seq(Nat) /\ x \o y = m
    BY <1>1
<1> HIDE DEF y
<1>3. Len(x \o y) = Len(x) + Len(y) /\ Len(x) \in Nat /\ Len(y) \in Nat
    BY <1>2, BytesJoined
<1>4. Len(y) <= Len(m)
    BY <1>2, <1>3
<1>5. y = <<>> => x = m
    <2>1. x \o <<>> = x
        OBVIOUS
    <2>2. QED BY <1>2, <2>1
<1>6. QED BY <1>1, <1>2, <1>4, <1>5 DEF y

\* update takes all of its input, in at most one turn more than it has bytes.
LEMMA UpdateTaken ==
    ASSUME Hasher!HashAssumption, NEW param, NEW s, NEW all, NEW c, Taken(s, param, all, c),
           NEW m \in Seq(Nat)
    PROVE  \E d \in Nat : Taken(Hasher!update(s, m), param, all \o m, d)
<1> DEFINE g == CHOOSE f : Loop(f, s, m)
           B == BLOCK_BYTES
<1>1. Loop(g, s, m)
    BY LoopExists
<1>2. Hasher!update(s, m) = g[Len(m) + 1].s
    BY UpdateIs
<1> HIDE DEF g
<1>3. g[0] = [s |-> s, m |-> m] /\ \A i \in Nat : i # 0 => g[i] = Step(g[i - 1])
    BY <1>1 DEF Loop
<1>4. all \in Seq(Nat) /\ c \in Nat /\ Len(m) \in Nat
    BY DEF Taken
<1> DEFINE Left(i) == \/ g[i].m = <<>>
                      \/ g[i].s.buf_len = B /\ Len(g[i].m) <= Len(m) - (i - 1)
           Good(i) == Turned(g[i], param, all, m) /\ (i # 0 => Left(i))
<1>5. Turned(g[0], param, all, m)
    <2>1. g[0].s = s /\ g[0].m = m
        BY <1>3
    <2>2. all \o <<>> = all /\ <<>> \o m = m /\ <<>> \in Seq(Nat)
        BY <1>4
    <2>3. QED BY <1>4, <2>1, <2>2 DEF Turned
<1>6. ASSUME NEW i \in Nat, i # 0, Good(i - 1) PROVE Good(i)
    <2> DEFINE p == g[i - 1]
    <2>1. g[i] = Step(p) /\ Turned(p, param, all, m) /\ i - 1 \in Nat
        BY <1>3, <1>6
    <2>2. i - 1 # 0 => \/ p.m = <<>>
                       \/ p.s.buf_len = B /\ Len(p.m) <= Len(m) - ((i - 1) - 1)
        BY <1>6
    <2> HIDE DEF p, Left, Good
    <2>3. /\ Turned(Step(p), param, all, m)
          /\ \/ Step(p).m = <<>>
             \/ /\ Step(p).s.buf_len = B
                /\ p.s.buf_len = B => Len(Step(p).m) < Len(p.m)
        BY <1>4, <2>1, StepTurned
    <2>4. Len(Step(p).m) \in Nat /\ Len(Step(p).m) <= Len(m) /\ Len(p.m) \in Nat
        <3>1. p.m \in Seq(Nat) /\ Step(p).m \in Seq(Nat) /\ Len(Step(p).m) <= Len(m)
            BY <2>1, <2>3, TurnedLeaves
        <3>2. \A q \in Seq(Nat) : Len(q) \in Nat
            OBVIOUS
        <3>3. QED BY <3>1, <3>2
    <2>5. \/ Step(p).m = <<>>
          \/ Step(p).s.buf_len = B /\ Len(Step(p).m) <= Len(m) - (i - 1)
        <3>1. CASE i - 1 = 0
            <4>1. Len(m) - (i - 1) = Len(m)
                BY <1>4, <3>1
            <4>2. QED BY <2>3, <2>4, <4>1
        <3>2. CASE i - 1 # 0 /\ p.m = <<>>
            BY <3>2 DEF Step
        <3>3. CASE i - 1 # 0 /\ p.m # <<>> /\ Step(p).m # <<>>
            <4>1. p.s.buf_len = B /\ Len(p.m) <= Len(m) - ((i - 1) - 1)
                BY <2>2, <3>3
            <4>2. Step(p).s.buf_len = B /\ Len(Step(p).m) < Len(p.m)
                BY <2>3, <3>3, <4>1
            <4>3. \A u, v \in Nat : u < v /\ v <= Len(m) - ((i - 1) - 1) => u <= Len(m) - (i - 1)
                BY <1>4
            <4>4. Len(Step(p).m) <= Len(m) - (i - 1)
                BY <2>4, <4>1, <4>2, <4>3
            <4>5. QED BY <4>2, <4>4
        <3>4. QED BY <3>1, <3>2, <3>3
    <2>6. Left(i)
        BY <2>1, <2>5 DEF Left
    <2>7. QED BY <2>1, <2>3, <2>6 DEF Good
<1>7. Good(0)
    BY <1>5
<1>8. \A i \in Nat : Good(i)
    <2> HIDE DEF Good
    <2> DEFINE T == {i \in Nat : ~ Good(i)}
    <2>1. SUFFICES ASSUME T # {} PROVE FALSE
        OBVIOUS
    <2>2. PICK i \in T : \A j \in T : i <= j
        BY <2>1, LeastNatural
    <2>3. i # 0 /\ i \in Nat /\ ~ Good(i)
        BY <1>7
    <2>4. i - 1 \in Nat /\ ~ (i <= i - 1)
        BY <2>3
    <2>5. Good(i - 1)
        BY <2>2, <2>4
    <2>6. QED BY <1>6, <2>3, <2>5
<1> DEFINE k == Len(m) + 1
<1>9. k \in Nat /\ k # 0 /\ Len(m) - (k - 1) = 0
    BY <1>4
<1> HIDE DEF k
<1>10. Turned(g[k], param, all, m) /\ Left(k)
    BY <1>8, <1>9
<1>11. g[k].m \in Seq(Nat) /\ (g[k].m = <<>> => \E d \in Nat : Taken(g[k].s, param, all \o m, d))
    BY <1>10, TurnedLeaves
<1>12. g[k].m = <<>>
    <2> DEFINE y == g[k].m
    <2>1. y \in Seq(Nat) /\ (y = <<>> \/ Len(y) <= 0)
        BY <1>9, <1>10, <1>11
    <2> HIDE DEF y
    <2>2. y = <<>>
        BY <2>1
    <2>3. QED BY <2>2 DEF y
<1>13. QED BY <1>2, <1>11, <1>12 DEF k

\* Zeros.
LEMMA ZerosAre ==
    ASSUME NEW n \in Nat
    PROVE  /\ Hasher!Zeros(n) \in Seq(Nat) /\ Len(Hasher!Zeros(n)) = n
           /\ \A j \in 1 .. n : Hasher!Zeros(n)[j] = 0
BY DEF Hasher!Zeros

\* A new hasher has been given nothing.
LEMMA NewTaken ==
    ASSUME Hasher!HashAssumption, NEW param
    PROVE  Taken(Hasher!WithParams(param), param, <<>>, 0)
<1> DEFINE s == Hasher!WithParams(param)
           z == Hasher!Zeros(2 * BLOCK_BYTES)
<1>1. BLOCK_BYTES \in Nat \ {0} /\ WordBase \in Nat \ {0} /\ 2 * BLOCK_BYTES \in Nat
      /\ 0 * BLOCK_BYTES = 0
    BY DEF Hasher!HashAssumption
<1>2. z \in Seq(Nat) /\ Len(z) = 2 * BLOCK_BYTES
    BY <1>1, ZerosAre
<1>3. Ctr(0) = <<0, 0>>
    <2>1. 0 = 0 * WordBase + 0 /\ 0 \in 0 .. WordBase - 1
        BY <1>1
    <2>2. 0 \div WordBase = 0 /\ 0 % WordBase = 0
        BY <1>1, <2>1, QuotientIs
    <2>3. QED BY <2>2 DEF Ctr
<1>4. s = [h |-> <<param>>, t |-> <<0, 0>>, f |-> FALSE, buf |-> z, buf_len |-> 0]
    BY DEF Hasher!WithParams
<1> HIDE DEF z, s
<1>5. <<param>> \in Seq(Links(param)) /\ Len(<<param>>) = 1 /\ <<param>>[1] = param
    BY DEF Links
<1>6. s \in Hashers(param)
    BY <1>2, <1>4, <1>5 DEF Hashers
<1>7. /\ s.h = <<param>> /\ s.t = <<0, 0>> /\ s.f = FALSE /\ s.buf = z /\ s.buf_len = 0
    BY <1>4
<1>8. <<>> \in Seq(Nat) /\ Len(<<>>) = 0 /\ 1 .. 0 = {} /\ 0 <= 2 * BLOCK_BYTES /\ ~ (0 > 0)
    BY <1>1
<1>9. Taken(s, param, <<>>, 0)
    BY <1>1, <1>2, <1>3, <1>5, <1>6, <1>7, <1>8 DEF Taken
<1>10. QED BY <1>9 DEF s

\* The hash of all in k blocks: a link for each, the last one padded.
Padded(all, k) == all \o Hasher!Zeros(k * BLOCK_BYTES - Len(all))

Link(all, k, i) ==
    [block |-> SubSeq(Padded(all, k), (i - 1) * BLOCK_BYTES + 1, i * BLOCK_BYTES),
     t |-> Ctr(Hasher!Min({i * BLOCK_BYTES, Len(all)})),
     f |-> i = k]

Digest(param, all, k) == <<param>> \o [i \in 1 .. k |-> Link(all, k, i)]

\* The lesser and the greater of two numbers.
LEMMA OfTwo ==
    ASSUME NEW a \in Nat, NEW b \in Nat, a <= b
    PROVE  Hasher!Min({a, b}) = a /\ Hasher!Min({b, a}) = a /\ Hasher!Max({a, b}) = b
BY DEF Hasher!Min, Hasher!Max

\* One block for every full one but the last, which may be full, and is empty
\* only if it is the first.
LEMMA BlocksAre ==
    ASSUME Hasher!HashAssumption, NEW c \in Nat, NEW n \in 0 .. BLOCK_BYTES, c > 0 => n > 0
    PROVE  Hasher!Max({1, (c * BLOCK_BYTES + n + BLOCK_BYTES - 1) \div BLOCK_BYTES}) = c + 1
<1> DEFINE B == BLOCK_BYTES
           cb == c * B
           x == cb + n + B - 1
<1>1. B \in Nat \ {0} /\ cb \in Nat /\ n \in Nat /\ (c + 1) * B = cb + B
    BY DEF Hasher!HashAssumption
<1>2. CASE n = 0
    <2>1. c = 0 /\ cb = 0 /\ B - 1 \in 0 .. B - 1
        BY <1>1, <1>2
    <2>2. x = B - 1 /\ B - 1 = 0 * B + (B - 1)
        BY <1>1, <1>2, <2>1
    <2>3. (B - 1) \div B = 0
        <3>1. B - 1 \in Nat /\ 0 \in Nat
            BY <1>1
        <3>2. QED BY <1>1, <2>1, <2>2, <3>1, QuotientIs
    <2>4. Hasher!Max({0, 1}) = 1
        BY OfTwo
    <2>5. {1, x \div B} = {0, 1}
        BY <2>2, <2>3
    <2>6. QED BY <2>1, <2>4, <2>5
<1>3. CASE n # 0
    <2>1. n - 1 \in 0 .. B - 1 /\ c + 1 \in Nat /\ 1 <= c + 1
        BY <1>1, <1>3
    <2>2. x = (c + 1) * B + (n - 1) /\ x \in Nat
        BY <1>1, <1>3
    <2> HIDE DEF x
    <2>3. x \div B = c + 1
        BY <1>1, <2>1, <2>2, QuotientIs
    <2>4. Hasher!Max({1, c + 1}) = c + 1
        BY <2>1, OfTwo
    <2>5. QED BY <2>3, <2>4 DEF x
<1>4. QED BY <1>2, <1>3

\* The links of the blocks that were compressed before.
LEMMA LinksBefore ==
    ASSUME Hasher!HashAssumption, NEW all \in Seq(Nat), NEW c \in Nat, NEW n \in 0 .. BLOCK_BYTES,
           Len(all) = c * BLOCK_BYTES + n, NEW i \in 1 .. c
    PROVE  Link(all, c + 1, i) = Chunk(all, i)
<1> DEFINE B == BLOCK_BYTES
           cb == c * B
           p == (i - 1) * B
           q == i * B
           z == Hasher!Zeros((c + 1) * B - Len(all))
           g == Padded(all, c + 1)
<1>1. /\ B \in Nat \ {0} /\ cb \in Nat /\ p \in Nat /\ q \in Nat /\ q = p + B /\ q <= cb
      /\ \A j \in 1 .. B : p + j \in 1 .. cb
    BY InBlocks DEF Hasher!HashAssumption
<1>2. Len(all) = cb + n /\ Len(all) \in Nat /\ cb <= Len(all) /\ q <= Len(all)
    BY <1>1
<1>3. (c + 1) * B - Len(all) \in Nat
    <2>1. (c + 1) * B = cb + B
        BY <1>1
    <2>2. QED BY <1>1, <1>2, <2>1
<1>4. z \in Seq(Nat)
    BY <1>3, ZerosAre
<1>5. g = all \o z
    BY DEF Padded
<1> HIDE DEF z, g, p, q, cb
<1>6. /\ g \in Seq(Nat) /\ Len(g) = Len(all) + Len(z)
      /\ \A j \in 1 .. Len(all) : g[j] = all[j]
    BY <1>4, <1>5, BytesJoined
<1>7. q <= Len(g) /\ p <= q
    <2>1. Len(z) \in Nat
        BY <1>4
    <2>2. QED BY <1>1, <1>2, <1>6, <2>1
<1>8. /\ Part(g, p, q) \in Seq(Nat) /\ Len(Part(g, p, q)) = q - p
      /\ \A j \in 1 .. q - p : Part(g, p, q)[j] = g[p + j]
    <2>1. g \in Seq(Nat) /\ p \in Nat /\ q \in Nat /\ p <= q /\ q <= Len(g)
        BY <1>1, <1>6, <1>7
    <2>2. QED BY <2>1, PartIs
<1>9. q - p = B
    BY <1>1
<1>10. \A j \in 1 .. B : Part(g, p, q)[j] = all[p + j]
    <2>1. \A j \in 1 .. B : p + j \in 1 .. Len(all)
        BY <1>1, <1>2
    <2>2. QED BY <1>6, <1>8, <1>9, <2>1
<1> DEFINE w == Part(g, p, q)
<1>11. w \in Seq(Nat) /\ Len(w) = B /\ \A j \in 1 .. B : w[j] = all[p + j]
    BY <1>8, <1>9, <1>10
<1> HIDE DEF w
<1>12. w = [j \in 1 .. B |-> w[j]]
    BY <1>11
<1>13. w = [j \in 1 .. B |-> all[p + j]]
    BY <1>11, <1>12
<1>14. Hasher!Min({q, Len(all)}) = q
    BY <1>1, <1>2, OfTwo
<1>15. (i = c + 1) = FALSE
    OBVIOUS
<1>16. Link(all, c + 1, i)
         = [block |-> Part(g, p, q), t |-> Ctr(Hasher!Min({q, Len(all)})), f |-> i = c + 1]
    BY DEF Link, Part, g, p, q
<1>17. Chunk(all, i) = [block |-> [j \in 1 .. B |-> all[p + j]], t |-> Ctr(q), f |-> FALSE]
    BY DEF Chunk, BlockAt, p, q
<1>18. Link(all, c + 1, i) = [block |-> w, t |-> Ctr(q), f |-> FALSE]
    BY <1>14, <1>15, <1>16 DEF w
<1>19. QED BY <1>13, <1>17, <1>18

\* The link of the last block: what is in the buffer, filled up with zeros.
Filled(s) == Hasher!Take(s.buf, s.buf_len) \o Hasher!Zeros(2 * BLOCK_BYTES - s.buf_len)

\* The last link is that of the buffer's first block.
LEMMA LinkLast ==
    ASSUME Hasher!HashAssumption, NEW param, NEW s, NEW all, NEW c, Taken(s, param, all, c),
           s.buf_len <= BLOCK_BYTES
    PROVE  /\ Hasher!Take(Filled(s), BLOCK_BYTES) \in Seq(Nat)
           /\ Link(all, c + 1, c + 1)
                = [block |-> Hasher!Take(Filled(s), BLOCK_BYTES), t |-> Ctr(Len(all)), f |-> TRUE]
<1> DEFINE B == BLOCK_BYTES
           b == s.buf
           n == s.buf_len
           p == c * B
           q == (c + 1) * B
           z == Hasher!Zeros(q - Len(all))
           g == Padded(all, c + 1)
           u == Hasher!Take(b, n)
           y == Hasher!Zeros(2 * B - n)
           e == Filled(s)
           v == Hasher!Take(e, B)
           w == Part(g, p, q)
<1>1. /\ b \in Seq(Nat) /\ n \in Nat /\ Len(b) = 2 * B /\ n <= B
      /\ all \in Seq(Nat) /\ c \in Nat /\ B \in Nat \ {0}
    BY DEF Taken, Hashers, Hasher!HashAssumption
<1>2. p \in Nat /\ q \in Nat /\ q = p + B
    BY <1>1
<1>3. Len(all) = p + n /\ \A j \in 1 .. n : b[j] = all[p + j]
    BY DEF Taken
<1>4. e = u \o y
    BY DEF Filled
<1>5. g = all \o z
    BY DEF Padded
<1>6. Link(all, c + 1, c + 1)
        = [block |-> Part(g, p, q), t |-> Ctr(Hasher!Min({q, Len(all)})), f |-> TRUE]
    <2>1. Link(all, c + 1, c + 1)
            = [block |-> Part(g, ((c + 1) - 1) * B, q), t |-> Ctr(Hasher!Min({q, Len(all)})),
               f |-> c + 1 = c + 1]
        BY DEF Link, Part
    <2>2. (c + 1) - 1 = c
        BY <1>1
    <2>3. QED BY <2>1, <2>2
<1> HIDE DEF b, n, p, q
<1>7. z \in Seq(Nat) /\ Len(z) = B - n /\ \A j \in 1 .. B - n : z[j] = 0
    <2>1. q - Len(all) = B - n /\ B - n \in Nat
        BY <1>1, <1>2, <1>3
    <2>2. QED BY <2>1, ZerosAre
<1>8. y \in Seq(Nat) /\ Len(y) = 2 * B - n /\ \A j \in 1 .. 2 * B - n : y[j] = 0
    <2>1. 2 * B - n \in Nat
        BY <1>1
    <2>2. QED BY <2>1, ZerosAre
<1>9. u \in Seq(Nat) /\ Len(u) = n /\ \A j \in 1 .. n : u[j] = b[j]
    <2>1. n <= Len(b)
        BY <1>1
    <2>2. QED BY <1>1, <2>1, Cut
<1> HIDE DEF z, y, u, e, g
<1>10. /\ e \in Seq(Nat) /\ Len(e) = 2 * B
       /\ \A j \in 1 .. n : e[j] = b[j]
       /\ \A j \in 1 .. B - n : e[n + j] = 0
    <2>1. /\ e \in Seq(Nat) /\ Len(e) = Len(u) + Len(y)
          /\ \A j \in 1 .. Len(u) : e[j] = u[j]
          /\ \A j \in 1 .. Len(y) : e[Len(u) + j] = y[j]
        BY <1>4, <1>8, <1>9, BytesJoined
    <2>2. n + (2 * B - n) = 2 * B /\ \A j \in 1 .. B - n : j \in 1 .. 2 * B - n
        BY <1>1
    <2>3. \A j \in 1 .. n : e[j] = b[j]
        BY <1>9, <2>1
    <2>4. \A j \in 1 .. 2 * B - n : e[n + j] = y[j]
        BY <1>8, <1>9, <2>1
    <2>5. \A j \in 1 .. B - n : e[n + j] = 0
        BY <1>8, <2>2, <2>4
    <2>6. Len(e) = 2 * B
        BY <1>8, <1>9, <2>1, <2>2
    <2>7. QED BY <2>1, <2>3, <2>5, <2>6
<1>11. /\ g \in Seq(Nat) /\ Len(g) = q
       /\ \A j \in 1 .. n : g[p + j] = b[j]
       /\ \A j \in 1 .. B - n : g[p + (n + j)] = 0
    <2>1. /\ g \in Seq(Nat) /\ Len(g) = Len(all) + Len(z)
          /\ \A j \in 1 .. Len(all) : g[j] = all[j]
          /\ \A j \in 1 .. Len(z) : g[Len(all) + j] = z[j]
        BY <1>1, <1>5, <1>7, BytesJoined
    <2>2. Len(all) + Len(z) = q
        BY <1>1, <1>2, <1>3, <1>7
    <2>3. \A j \in 1 .. n : p + j \in 1 .. Len(all)
        BY <1>1, <1>2, <1>3
    <2>4. \A j \in 1 .. n : g[p + j] = b[j]
        BY <1>3, <2>1, <2>3
    <2>5. \A j \in 1 .. B - n : g[Len(all) + j] = 0
        BY <1>7, <2>1
    <2>6. \A j \in 1 .. B - n : p + (n + j) = Len(all) + j
        BY <1>1, <1>2, <1>3
    <2>7. QED BY <2>1, <2>2, <2>4, <2>5, <2>6
<1>12. v \in Seq(Nat) /\ Len(v) = B /\ \A j \in 1 .. B : v[j] = e[j]
    <2>1. B \in Nat /\ B <= Len(e)
        BY <1>1, <1>10
    <2>2. QED BY <1>10, <2>1, Cut
<1>13. w \in Seq(Nat) /\ Len(w) = B /\ \A j \in 1 .. B : w[j] = g[p + j]
    <2>1. p <= q /\ q <= Len(g) /\ q - p = B
        BY <1>1, <1>2, <1>11
    <2>2. /\ w \in Seq(Nat) /\ Len(w) = q - p
          /\ \A j \in 1 .. q - p : w[j] = g[p + j]
        BY <1>2, <1>11, <2>1, PartIs
    <2>3. QED BY <2>1, <2>2
<1> HIDE DEF v, w
<1>14. \A j \in 1 .. B : w[j] = v[j]
    <2>1. SUFFICES ASSUME NEW j \in 1 .. B PROVE w[j] = v[j]
        OBVIOUS
    <2>2. CASE j <= n
        <3>1. j \in 1 .. n
            BY <1>1, <2>2
        <3>2. QED BY <1>10, <1>11, <1>12, <1>13, <3>1
    <2>3. CASE j > n
        <3>1. PICK i \in 1 .. B - n : j = n + i
            <4>1. j - n \in 1 .. B - n /\ j = n + (j - n)
                BY <1>1, <2>3
            <4>2. QED BY <4>1
        <3>2. e[n + i] = 0 /\ g[p + (n + i)] = 0
            BY <1>10, <1>11
        <3>3. w[j] = g[p + (n + i)] /\ v[j] = e[n + i]
            BY <1>12, <1>13, <3>1
        <3>4. QED BY <3>2, <3>3
    <2>4. j <= n \/ j > n
        BY <1>1
    <2>5. QED BY <2>2, <2>3, <2>4
<1>15. w = v
    <2>1. \A x \in Seq(Nat) : x = [j \in 1 .. Len(x) |-> x[j]]
        OBVIOUS
    <2>2. w = [j \in 1 .. B |-> w[j]] /\ v = [j \in 1 .. B |-> v[j]]
        BY <1>12, <1>13, <2>1
    <2>3. QED BY <1>14, <2>2
<1>16. Hasher!Min({q, Len(all)}) = Len(all)
    <2>1. Len(all) \in Nat /\ Len(all) <= q
        BY <1>1, <1>2, <1>3
    <2>2. QED BY <1>2, <2>1, OfTwo
<1>17. Link(all, c + 1, c + 1) = [block |-> w, t |-> Ctr(Len(all)), f |-> TRUE]
    BY <1>6, <1>16 DEF w
<1>18. QED BY <1>12, <1>15, <1>17 DEF v, e

\* A chain is known by its links.
LEMMA DigestIs ==
    ASSUME NEW param, NEW all, NEW c \in Nat, NEW h \in Seq(Links(param)), Len(h) = c + 1,
           h[1] = param, \A i \in 1 .. c : h[i + 1] = Link(all, c + 1, i),
           NEW x \in Links(param), x = Link(all, c + 1, c + 1)
    PROVE  Append(h, x) = Digest(param, all, c + 1)
<1> DEFINE k == c + 1
           g == Append(h, x)
           f == [i \in 1 .. k |-> Link(all, k, i)]
           S == {param} \union {Link(all, k, i) : i \in 1 .. k}
           d == <<param>> \o f
<1>1. k \in Nat /\ k + 1 = c + 2
    OBVIOUS
<1>2. /\ Len(g) = k + 1 /\ \A i \in 1 .. k : g[i] = h[i]
      /\ g[k + 1] = x /\ g = [i \in 1 .. k + 1 |-> g[i]]
    <2>1. g \in Seq(Links(param)) /\ Len(g) = k + 1 /\ \A i \in 1 .. k : g[i] = h[i]
        OBVIOUS
    <2>2. g[k + 1] = x
        OBVIOUS
    <2>3. \A q \in Seq(Links(param)) : q = [j \in 1 .. Len(q) |-> q[j]]
        OBVIOUS
    <2> HIDE DEF g
    <2>4. QED BY <2>1, <2>2, <2>3
<1>3. f \in Seq(S) /\ Len(f) = k /\ <<param>> \in Seq(S) /\ Len(<<param>>) = 1
    BY <1>1
<1>4. \A i \in 1 .. k : f[i] = Link(all, k, i)
    OBVIOUS
<1> HIDE DEF f, S, g, k
<1>5. /\ d \in Seq(S) /\ Len(d) = k + 1 /\ d[1] = param
      /\ \A i \in 1 .. k : d[1 + i] = f[i]
    <2> DEFINE a == <<param>>
    <2>1. a \in Seq(S) /\ Len(a) = 1 /\ a[1] = param
        BY <1>3
    <2> HIDE DEF a
    <2>2. /\ a \o f \in Seq(S) /\ Len(a \o f) = 1 + k /\ (a \o f)[1] = a[1]
          /\ \A i \in 1 .. k : (a \o f)[1 + i] = f[i]
        <3>1. \A x1, x2 \in Seq(S) :
                 /\ x1 \o x2 \in Seq(S) /\ Len(x1 \o x2) = Len(x1) + Len(x2)
                 /\ \A j \in 1 .. Len(x1) : (x1 \o x2)[j] = x1[j]
                 /\ \A j \in 1 .. Len(x2) : (x1 \o x2)[Len(x1) + j] = x2[j]
            OBVIOUS
        <3>2. /\ a \o f \in Seq(S) /\ Len(a \o f) = Len(a) + Len(f)
              /\ \A j \in 1 .. Len(a) : (a \o f)[j] = a[j]
              /\ \A j \in 1 .. Len(f) : (a \o f)[Len(a) + j] = f[j]
            BY <1>3, <2>1, <3>1
        <3>3. 1 \in 1 .. Len(a)
            BY <2>1
        <3>4. QED BY <1>3, <2>1, <3>2, <3>3
    <2>3. 1 + k = k + 1
        BY <1>1
    <2>4. QED BY <2>1, <2>2, <2>3 DEF a
<1>6. d = [i \in 1 .. k + 1 |-> d[i]]
    <2>1. \A q \in Seq(S) : q = [j \in 1 .. Len(q) |-> q[j]]
        OBVIOUS
    <2> HIDE DEF d
    <2>2. QED BY <1>5, <2>1
<1> HIDE DEF d
<1>7. ASSUME NEW i \in 1 .. k + 1 PROVE g[i] = d[i]
    <2>1. CASE i = 1
        <3>1. 1 \in 1 .. k
            BY <1>1 DEF k
        <3>2. QED BY <1>2, <1>5, <2>1, <3>1
    <2>2. CASE i # 1
        <3>1. PICK j \in 1 .. k : i = 1 + j
            <4>1. i - 1 \in 1 .. k /\ i = 1 + (i - 1)
                BY <1>1, <2>2
            <4>2. QED BY <4>1
        <3>2. d[i] = Link(all, k, j)
            BY <1>4, <1>5, <3>1
        <3>3. CASE j = k
            <4>1. i = k + 1
                BY <1>1, <3>1, <3>3
            <4>2. g[i] = x
                BY <1>2, <4>1
            <4>3. x = Link(all, k, k)
                BY DEF k
            <4>4. QED BY <3>2, <3>3, <4>2, <4>3
        <3>4. CASE j # k
            <4>1. j \in 1 .. c /\ j + 1 \in 1 .. k /\ i = j + 1
                BY <3>1, <3>4 DEF k
            <4>2. g[i] = h[j + 1]
                BY <1>2, <4>1
            <4>3. h[j + 1] = Link(all, k, j)
                BY <4>1 DEF k
            <4>4. QED BY <3>2, <4>2, <4>3
        <3>5. QED BY <3>3, <3>4
    <2>3. QED BY <2>1, <2>2
<1>8. g = d
    BY <1>2, <1>6, <1>7
<1>9. QED BY <1>8 DEF g, d, f, k, Digest

\* finalize: the digest of all, in the number of blocks that it takes.
LEMMA Finished ==
    ASSUME Hasher!HashAssumption, NEW param, NEW s, NEW all, NEW c, Taken(s, param, all, c)
    PROVE  /\ Hasher!finalize(s).f = TRUE
           /\ Hasher!finalize(s).h
                = Digest(param, all, Hasher!Max({1, (Len(all) + BLOCK_BYTES - 1) \div BLOCK_BYTES}))
<1> DEFINE B == BLOCK_BYTES
           r == IF s.buf_len > B THEN Hasher!CompressFirst(s) ELSE s
<1>1. B \in Nat \ {0} /\ s.buf_len \in Nat /\ s.buf_len <= 2 * B /\ c \in Nat
    BY DEF Taken, Hashers, Hasher!HashAssumption
<1>2. PICK d \in Nat : Taken(r, param, all, d) /\ r.buf_len <= B
    <2>1. CASE s.buf_len > B
        <3>1. Taken(r, param, all, c + 1) /\ r.buf_len = s.buf_len - B
            BY <2>1, CompressTaken
        <3>2. s.buf_len - B <= B /\ c + 1 \in Nat
            BY <1>1
        <3>3. QED BY <3>1, <3>2
    <2>2. CASE ~ (s.buf_len > B)
        <3>1. r = s /\ s.buf_len <= B
            BY <1>1, <2>2
        <3>2. QED BY <1>1, <3>1
    <2>3. QED BY <2>1, <2>2
<1> DEFINE n == r.buf_len
           a == Hasher!increment_counter(r, n)
           t == Hasher!finalize(s)
<1>3. t = Hasher!compress([a EXCEPT !.f = TRUE,
                                    !.buf = Hasher!Take(@, a.buf_len)
                                              \o Hasher!Zeros(Len(@) - a.buf_len)])
    BY DEF Hasher!finalize
<1> HIDE DEF r, t
<1>4. /\ r \in Hashers(param) /\ r.f = FALSE /\ r.buf \in Seq(Nat) /\ n \in Nat /\ Len(r.buf) = 2 * B
      /\ r.h \in Seq(Links(param)) /\ all \in Seq(Nat)
      /\ Len(all) = d * B + n /\ r.t = Ctr(d * B) /\ (d > 0 => n > 0)
      /\ Len(r.h) = d + 1 /\ r.h[1] = param /\ \A i \in 1 .. d : r.h[i + 1] = Chunk(all, i)
    BY <1>2 DEF Taken, Hashers
<1> DEFINE k == Ctr(Len(all))
<1>5. a = AtCount(r, Len(all)) /\ k \in Nat \X Nat
    <2> DEFINE full == d * B
    <2>1. full \in Nat /\ r.t = Ctr(full) /\ Len(all) = full + n
        BY <1>1, <1>4
    <2> HIDE DEF full, n
    <2>2. n \in Nat /\ n <= BLOCK_BYTES
        BY <1>2, <1>4 DEF n
    <2>3. Hasher!increment_counter(r, n) = AtCount(r, full + n) /\ Ctr(full + n) \in Nat \X Nat
        BY <1>4, <2>1, <2>2, Counted
    <2>4. QED BY <2>1, <2>3
<1> DEFINE e == Filled(r)
           x == [block |-> Hasher!Take(e, B), t |-> k, f |-> TRUE]
<1>6. t.f = TRUE /\ t.h = Append(r.h, x)
    <2> DEFINE top == TRUE
               y == [h |-> r.h, t |-> k, f |-> top, buf |-> e, buf_len |-> n]
               x2 == [block |-> Hasher!Take(e, B), t |-> k, f |-> top]
    <2>1. r = [h |-> r.h, t |-> r.t, f |-> r.f, buf |-> r.buf, buf_len |-> n]
        BY <1>4 DEF Hashers
    <2>2. a = [r EXCEPT !.t = k]
        BY <1>5 DEF AtCount
    <2> HIDE DEF a, k
    <2>3. a = [h |-> r.h, t |-> k, f |-> r.f, buf |-> r.buf, buf_len |-> n]
        BY <2>1, <2>2
    <2>4. a.buf = r.buf /\ a.buf_len = n /\ Len(r.buf) = 2 * B
        BY <1>4, <2>3
    <2>5. Hasher!Take(a.buf, a.buf_len) \o Hasher!Zeros(Len(a.buf) - a.buf_len) = e
        BY <2>4 DEF Filled
    <2> HIDE DEF e, n
    <2>6. t = Hasher!compress([a EXCEPT !.f = top, !.buf = e])
        BY <1>3, <2>5
    <2> HIDE DEF top
    <2>7. [a EXCEPT !.f = top, !.buf = e] = y
        <3>1. [a EXCEPT !.f = top, !.buf = e] = [[a EXCEPT !.f = top] EXCEPT !.buf = e]
            OBVIOUS
        <3>2. \A h0, t0, f0, b0, n0, f1 :
                 [[h |-> h0, t |-> t0, f |-> f0, buf |-> b0, buf_len |-> n0] EXCEPT !.f = f1]
                   = [h |-> h0, t |-> t0, f |-> f1, buf |-> b0, buf_len |-> n0]
            OBVIOUS
        <3>3. [a EXCEPT !.f = top]
                = [h |-> r.h, t |-> k, f |-> top, buf |-> r.buf, buf_len |-> n]
            BY <2>3, <3>2
        <3>4. \A h0, t0, f0, b0, n0, b1 :
                 [[h |-> h0, t |-> t0, f |-> f0, buf |-> b0, buf_len |-> n0] EXCEPT !.buf = b1]
                   = [h |-> h0, t |-> t0, f |-> f0, buf |-> b1, buf_len |-> n0]
            OBVIOUS
        <3> DEFINE a1 == [h |-> r.h, t |-> k, f |-> top, buf |-> r.buf, buf_len |-> n]
        <3>5. [a1 EXCEPT !.buf = e] = y
            BY <3>4
        <3>6. [a EXCEPT !.f = top] = a1
            BY <3>3
        <3> HIDE DEF a1, y
        <3>7. QED BY <3>1, <3>5, <3>6
    <2>8. t = Hasher!compress(y)
        BY <2>6, <2>7
    <2>9. y.buf = e /\ y.t = k /\ y.f = top /\ y.h = r.h
        OBVIOUS
    <2>10. Hasher!compress(y) = [y EXCEPT !.h = Append(r.h, x2)]
        BY <2>9 DEF Hasher!compress
    <2> HIDE DEF x, x2
    <2>11. t = [h |-> Append(r.h, x2), t |-> k, f |-> top, buf |-> e, buf_len |-> n]
        BY <2>8, <2>10
    <2>12. t.f = top /\ t.h = Append(r.h, x2)
        BY <2>11
    <2>13. QED BY <2>12 DEF top, x, x2
<1>7. x = Link(all, d + 1, d + 1) /\ x \in Links(param)
    <2>1. /\ Hasher!Take(e, B) \in Seq(Nat)
          /\ Link(all, d + 1, d + 1) = x
        BY <1>2, LinkLast
    <2>2. QED BY <1>5, <2>1 DEF Links
<1>8. \A i \in 1 .. d : r.h[i + 1] = Link(all, d + 1, i)
    <2>1. n \in 0 .. BLOCK_BYTES /\ Len(all) = d * BLOCK_BYTES + n
        BY <1>2, <1>4
    <2> HIDE DEF n
    <2>2. \A i \in 1 .. d : Link(all, d + 1, i) = Chunk(all, i)
        BY <1>4, <2>1, LinksBefore
    <2>3. QED BY <1>4, <2>2
<1>9. t.h = Digest(param, all, d + 1)
    <2> DEFINE h == r.h
    <2>1. h \in Seq(Links(param)) /\ Len(h) = d + 1 /\ h[1] = param
          /\ \A i \in 1 .. d : h[i + 1] = Link(all, d + 1, i)
        BY <1>4, <1>8
    <2> HIDE DEF h, x
    <2>2. Append(h, x) = Digest(param, all, d + 1)
        BY <1>7, <2>1, DigestIs
    <2>3. QED BY <1>6, <2>2 DEF h
<1>10. Hasher!Max({1, (Len(all) + B - 1) \div B}) = d + 1
    <2>1. n \in 0 .. BLOCK_BYTES /\ (d > 0 => n > 0) /\ Len(all) = d * BLOCK_BYTES + n
        BY <1>2, <1>4
    <2> HIDE DEF n
    <2>2. Hasher!Max({1, (d * BLOCK_BYTES + n + BLOCK_BYTES - 1) \div BLOCK_BYTES}) = d + 1
        BY <2>1, BlocksAre
    <2>3. QED BY <2>1, <2>2
<1>11. QED BY <1>6, <1>9, <1>10 DEF t

\* The block of a key, and all that a hasher was given.
Given(k) == IF k = <<>> THEN <<>> ELSE k \o Hasher!Zeros(BLOCK_BYTES - Len(k))

Param(k) == Hasher!encode_params(32, Len(k))

Blocks(all) == Hasher!Max({1, (Len(all) + BLOCK_BYTES - 1) \div BLOCK_BYTES})

\* A hasher that is not finalized was given the key's block and the bytes fed,
\* one that is has their digest.
HashInv ==
    hasher # Hasher!NoHasher =>
        /\ key \in Seq(Nat) /\ fed \in Seq(Nat) /\ Given(key) \in Seq(Nat)
        /\ \/ \E c \in Nat : Taken(hasher, Param(key), Given(key) \o fed, c)
           \/ /\ hasher.f = TRUE
              /\ hasher.h = Digest(Param(key), Given(key) \o fed, Blocks(Given(key) \o fed))

\* The invariant has what a hash is, and so the property.
LEMMA HashAnswers ==
    ASSUME HashInv
    PROVE  HashesWhatWasFed
<1> DEFINE all == Given(key) \o fed
           k == Blocks(all)
<1>1. SUFFICES ASSUME hasher # Hasher!NoHasher, hasher.f
               PROVE  hasher.h = Digest(Param(key), all, k)
    <2>1. Hasher!HashesWhatWasFed
            <=> (hasher # Hasher!NoHasher /\ hasher.f => hasher.h = Digest(Param(key), all, k))
        BY DEF Hasher!HashesWhatWasFed, Digest, Link, Padded, Ctr, Param, Given, Blocks
    <2>2. QED BY <2>1 DEF HashesWhatWasFed
<1>2. ~ \E c \in Nat : Taken(hasher, Param(key), all, c)
    BY <1>1 DEF Taken
<1>3. QED BY <1>1, <1>2 DEF HashInv

\* There is no hasher yet.
LEMMA HashStart == Hasher!Init => HashInv
BY DEF Hasher!Init, HashInv

\* new_with_key gives the hasher the block of the key.
LEMMA HashNews ==
    ASSUME Hasher!HashAssumption, NEW k \in HashKeys, Hasher!New(k)
    PROVE  HashInv'
<1> DEFINE s == Hasher!WithParams(Param(k))
           z == Hasher!Zeros(BLOCK_BYTES - Len(k))
<1>1. k \in Seq(Nat) /\ Len(k) \in Nat /\ BLOCK_BYTES - Len(k) \in Nat
    BY DEF Hasher!HashAssumption
<1>2. Taken(s, Param(k), <<>>, 0)
    BY NewTaken
<1> HIDE DEF s
<1>3. key' = k /\ fed' = <<>>
    BY DEF Hasher!New
<1>4. z \in Seq(Nat)
    BY <1>1, ZerosAre
<1> HIDE DEF z
<1>5. hasher' = IF k = <<>> THEN s ELSE Hasher!update(s, k \o z)
    BY DEF Hasher!New, Param, s, z
<1>6. Given(k) \in Seq(Nat) /\ Given(k) = IF k = <<>> THEN <<>> ELSE k \o z
    <2>1. k \o z \in Seq(Nat) /\ <<>> \in Seq(Nat)
        BY <1>1, <1>4, BytesJoined
    <2>2. QED BY <2>1 DEF Given, z
<1>7. \E c \in Nat : Taken(hasher', Param(k), Given(k), c)
    <2>1. CASE k = <<>>
        <3>1. 0 \in Nat
            OBVIOUS
        <3>2. QED BY <1>2, <1>5, <1>6, <2>1, <3>1
    <2>2. CASE k # <<>>
        <3>1. k \o z \in Seq(Nat) /\ Given(k) = k \o z
            BY <1>6, <2>2
        <3>2. \E c \in Nat : Taken(Hasher!update(s, Given(k)), Param(k), <<>> \o Given(k), c)
            BY <1>2, <1>6, UpdateTaken
        <3>3. <<>> \o Given(k) = Given(k)
            BY <1>6
        <3>4. QED BY <1>5, <2>2, <3>1, <3>2, <3>3
    <2>3. QED BY <2>1, <2>2
<1>8. Given(k) \o <<>> = Given(k) /\ <<>> \in Seq(Nat)
    BY <1>6
<1>9. \E c \in Nat : Taken(hasher', Param(k), Given(k) \o <<>>, c)
    BY <1>7, <1>8
<1>10. QED BY <1>1, <1>3, <1>6, <1>8, <1>9 DEF HashInv, Given, Param

\* update gives it what it is called with, in as many turns as that takes.
LEMMA HashUpdates ==
    ASSUME Hasher!HashAssumption, NEW n \in 1 .. MaxInput, Hasher!Update(n), HashInv
    PROVE  HashInv'
<1> DEFINE m == [i \in 1 .. n |-> Len(fed) + i]
           g == Given(key)
<1>1. hasher # Hasher!NoHasher /\ ~ hasher.f /\ hasher' = Hasher!update(hasher, m)
      /\ fed' = fed \o m /\ key' = key
    BY DEF Hasher!Update
<1>2. key \in Seq(Nat) /\ fed \in Seq(Nat) /\ g \in Seq(Nat)
    BY <1>1 DEF HashInv
<1>3. PICK c \in Nat : Taken(hasher, Param(key), g \o fed, c)
    BY <1>1 DEF HashInv
<1>4. m \in Seq(Nat)
    <2>1. Len(fed) \in Nat /\ n \in Nat
        BY <1>2 DEF Hasher!HashAssumption
    <2>2. \A i \in 1 .. n : Len(fed) + i \in Nat
        BY <2>1
    <2>3. QED BY <2>1, <2>2
<1> HIDE DEF m, g
<1>5. PICK d \in Nat : Taken(Hasher!update(hasher, m), Param(key), (g \o fed) \o m, d)
    BY <1>3, <1>4, UpdateTaken
<1>6. (g \o fed) \o m = g \o (fed \o m) /\ fed \o m \in Seq(Nat)
    <2>1. (g \o fed) \o m = g \o (fed \o m)
        BY <1>2, <1>4, BytesAssociate
    <2>2. fed \o m \in Seq(Nat)
        BY <1>2, <1>4, BytesJoined
    <2>3. QED BY <2>1, <2>2
<1>7. \E e \in Nat : Taken(hasher', Param(key), g \o fed', e)
    BY <1>1, <1>5, <1>6
<1>8. Given(key') = g /\ Param(key') = Param(key)
    BY <1>1 DEF g
<1>9. QED BY <1>1, <1>2, <1>6, <1>7, <1>8 DEF HashInv, Given, Param

\* finalize makes the digest.
LEMMA HashFinishes ==
    ASSUME Hasher!HashAssumption, Hasher!Finalize, HashInv
    PROVE  HashInv'
<1> DEFINE all == Given(key) \o fed
<1>1. hasher # Hasher!NoHasher /\ ~ hasher.f /\ hasher' = Hasher!finalize(hasher)
      /\ fed' = fed /\ key' = key
    BY DEF Hasher!Finalize
<1>2. key \in Seq(Nat) /\ fed \in Seq(Nat) /\ Given(key) \in Seq(Nat)
    BY <1>1 DEF HashInv
<1>3. PICK c \in Nat : Taken(hasher, Param(key), all, c)
    BY <1>1 DEF HashInv
<1> HIDE DEF all
<1>4. hasher'.f = TRUE /\ hasher'.h = Digest(Param(key), all, Blocks(all))
    BY <1>1, <1>3, Finished DEF Blocks
<1>5. QED BY <1>1, <1>2, <1>4 DEF HashInv, Given, Param, all, Digest, Link, Padded, Blocks, Ctr

\* A hash is that of the bytes fed, in whatever portions they came.
THEOREM HashOfWhatWasFed == Hasher!Spec => []HashesWhatWasFed
<1>1. Hasher!HashAssumption
    BY HashAssumption
<1>2. HashInv /\ [Hasher!Next]_Hasher!vars => HashInv'
    <2> SUFFICES ASSUME HashInv, [Hasher!Next]_Hasher!vars
                 PROVE  HashInv'
        OBVIOUS
    <2>1. ASSUME NEW k \in HashKeys, Hasher!New(k) PROVE HashInv'
        BY <1>1, <2>1, HashNews
    <2>2. ASSUME NEW n \in 1 .. MaxInput, Hasher!Update(n) PROVE HashInv'
        BY <1>1, <2>2, HashUpdates
    <2>3. CASE Hasher!Finalize
        BY <1>1, <2>3, HashFinishes
    <2>4. CASE Hasher!Drop
        BY <2>4 DEF Hasher!Drop, HashInv
    <2>5. CASE UNCHANGED Hasher!vars
        <3>1. hasher' = hasher /\ key' = key /\ fed' = fed
            BY <2>5 DEF Hasher!vars
        <3>2. QED BY <3>1 DEF HashInv, Given, Param
    <2>6. QED BY <2>1, <2>2, <2>3, <2>4, <2>5 DEF Hasher!Next
<1>3. HashInv => HashesWhatWasFed
    BY HashAnswers
<1>4. QED BY <1>2, <1>3, HashStart, PTL DEF Hasher!Spec

-------------------------------------------------------------------------------
(* Repositories.  The bytes of keys are in a total order, and so are the   *)
(* pairs of an iterator; what a database shows changes with every          *)
(* operation as the map of the mock does, also when the overlay is flushed. *)

(* The order of byte strings.                                              *)

\* What keys and prefixes are.
Bytes == Seq(Nat)

\* a and b have the same first n bytes.
SameFirst(a, b, n) == \A i \in 1 .. n : a[i] = b[i]

\* a is below b because of the byte after the first n.
BelowAt(a, b, n) ==
    /\ n <= Len(a) /\ n < Len(b) /\ SameFirst(a, b, n)
    /\ n < Len(a) => a[n + 1] < b[n + 1]

\* The first n of a sequence of bytes.
LEMMA FirstOf ==
    ASSUME NEW a \in Bytes, NEW b \in Bytes, NEW n \in Nat, n <= Len(a), n <= Len(b)
    PROVE  SubSeq(a, 1, n) = SubSeq(b, 1, n) <=> SameFirst(a, b, n)
<1>1. Len(a) \in Nat /\ Len(b) \in Nat /\ DOMAIN a = 1 .. Len(a) /\ DOMAIN b = 1 .. Len(b)
    BY DEF Bytes
<1>2. SubSeq(a, 1, n) = [i \in 1 .. n |-> a[i]] /\ SubSeq(b, 1, n) = [i \in 1 .. n |-> b[i]]
    <2>1. /\ SubSeq(a, 1, n) = [i \in 1 .. (n - 1 + 1) |-> a[1 + i - 1]]
          /\ SubSeq(b, 1, n) = [i \in 1 .. (n - 1 + 1) |-> b[1 + i - 1]]
        BY <1>1 DEF Bytes
    <2>2. n - 1 + 1 = n /\ \A i \in 1 .. n : 1 + i - 1 = i
        OBVIOUS
    <2>3. QED BY <2>1, <2>2
<1> DEFINE f == SubSeq(a, 1, n)
           g == SubSeq(b, 1, n)
<1>3. /\ f = [i \in 1 .. n |-> a[i]] /\ g = [i \in 1 .. n |-> b[i]]
    BY <1>2
<1> HIDE DEF f, g
<1>4. f = g <=> SameFirst(a, b, n)
    BY <1>3 DEF SameFirst
<1>5. QED BY <1>4 DEF f, g

\* The order of byte strings, byte by byte.
LEMMA KeyBelowIs ==
    ASSUME NEW a \in Bytes, NEW b \in Bytes
    PROVE  /\ Len(a) \in Nat /\ Len(b) \in Nat
           /\ \A i \in 1 .. Len(a) : a[i] \in Nat
           /\ \A i \in 1 .. Len(b) : b[i] \in Nat
           /\ Stores!KeyBelow(a, b) <=> \E n \in Nat : BelowAt(a, b, n)
<1>1. /\ Len(a) \in Nat /\ Len(b) \in Nat
      /\ \A i \in 1 .. Len(a) : a[i] \in Nat
      /\ \A i \in 1 .. Len(b) : b[i] \in Nat
    BY DEF Bytes
<1> DEFINE First(s, n) == SubSeq(s, 1, n)
<1>2. \A n \in Nat : n <= Len(a) /\ n <= Len(b) =>
          (First(a, n) = First(b, n) <=> SameFirst(a, b, n))
    BY FirstOf
<1>3. Stores!KeyBelow(a, b) <=>
        \E n \in 0 .. Len(a) :
            /\ n <= Len(b) /\ First(a, n) = First(b, n)
            /\ n < Len(b)
            /\ n = Len(a) \/ (n < Len(a) /\ a[n + 1] < b[n + 1])
    BY DEF Stores!KeyBelow
<1> HIDE DEF First
<1>4. ASSUME NEW n \in 0 .. Len(a)
      PROVE  BelowAt(a, b, n) <=>
                /\ n <= Len(b) /\ First(a, n) = First(b, n)
                /\ n < Len(b)
                /\ n = Len(a) \/ (n < Len(a) /\ a[n + 1] < b[n + 1])
    BY <1>1, <1>2 DEF BelowAt
<1>5. \A n \in Nat : BelowAt(a, b, n) => n \in 0 .. Len(a)
    BY <1>1 DEF BelowAt
<1>6. (\E n \in Nat : BelowAt(a, b, n)) <=> \E n \in 0 .. Len(a) : BelowAt(a, b, n)
    BY <1>1, <1>5
<1>7. QED BY <1>1, <1>3, <1>4, <1>6

\* It is a total order.
LEMMA KeysOrdered ==
    ASSUME NEW a \in Bytes, NEW b \in Bytes, NEW c \in Bytes
    PROVE  /\ ~ Stores!KeyBelow(a, a)
           /\ Stores!KeyBelow(a, b) /\ Stores!KeyBelow(b, c) => Stores!KeyBelow(a, c)
           /\ a = b \/ Stores!KeyBelow(a, b) \/ Stores!KeyBelow(b, a)
<1>1. /\ Len(a) \in Nat /\ Len(b) \in Nat /\ Len(c) \in Nat
      /\ \A i \in 1 .. Len(a) : a[i] \in Nat
      /\ \A i \in 1 .. Len(b) : b[i] \in Nat
      /\ \A i \in 1 .. Len(c) : c[i] \in Nat
      /\ Stores!KeyBelow(a, a) <=> \E n \in Nat : BelowAt(a, a, n)
      /\ Stores!KeyBelow(a, b) <=> \E n \in Nat : BelowAt(a, b, n)
      /\ Stores!KeyBelow(b, a) <=> \E n \in Nat : BelowAt(b, a, n)
      /\ Stores!KeyBelow(b, c) <=> \E n \in Nat : BelowAt(b, c, n)
      /\ Stores!KeyBelow(a, c) <=> \E n \in Nat : BelowAt(a, c, n)
    BY KeyBelowIs
<1>2. ~ Stores!KeyBelow(a, a)
    <2>1. ASSUME NEW n \in Nat, BelowAt(a, a, n) PROVE FALSE
        <3>1. n < Len(a) /\ a[n + 1] < a[n + 1] /\ n + 1 \in 1 .. Len(a)
            BY <1>1, <2>1 DEF BelowAt
        <3>2. a[n + 1] \in Nat
            BY <1>1, <3>1
        <3>3. QED BY <3>1, <3>2
    <2>2. QED BY <1>1, <2>1
<1>3. ASSUME Stores!KeyBelow(a, b), Stores!KeyBelow(b, c) PROVE Stores!KeyBelow(a, c)
    <2>1. PICK m \in Nat : BelowAt(a, b, m)
        BY <1>1, <1>3
    <2>2. PICK n \in Nat : BelowAt(b, c, n)
        BY <1>1, <1>3
    <2>3. /\ m <= Len(a) /\ m < Len(b) /\ \A i \in 1 .. m : a[i] = b[i]
          /\ m < Len(a) => a[m + 1] < b[m + 1]
          /\ n <= Len(b) /\ n < Len(c) /\ \A i \in 1 .. n : b[i] = c[i]
          /\ n < Len(b) => b[n + 1] < c[n + 1]
        BY <2>1, <2>2 DEF BelowAt, SameFirst
    <2>4. CASE m < n
        <3>1. /\ m < Len(c) /\ m + 1 \in 1 .. n
              /\ \A i \in 1 .. m : i \in 1 .. n
            BY <1>1, <2>3, <2>4
        <3>2. b[m + 1] = c[m + 1] /\ \A i \in 1 .. m : a[i] = c[i]
            BY <2>3, <3>1
        <3>3. BelowAt(a, c, m)
            BY <2>3, <3>1, <3>2 DEF BelowAt, SameFirst
        <3>4. QED BY <1>1, <3>3
    <2>5. CASE n < m
        <3>1. /\ n <= Len(a) /\ n < Len(b) /\ n + 1 \in 1 .. m
              /\ \A i \in 1 .. n : i \in 1 .. m
            BY <1>1, <2>3, <2>5
        <3>2. a[n + 1] = b[n + 1] /\ \A i \in 1 .. n : a[i] = c[i]
            BY <2>3, <3>1
        <3>3. BelowAt(a, c, n)
            BY <2>3, <3>1, <3>2 DEF BelowAt, SameFirst
        <3>4. QED BY <1>1, <3>3
    <2>6. CASE m = n
        <3>1. \A i \in 1 .. m : a[i] = c[i]
            BY <2>3, <2>6
        <3>2. m < Len(a) => a[m + 1] < c[m + 1]
            <4>1. SUFFICES ASSUME m < Len(a) PROVE a[m + 1] < c[m + 1]
                OBVIOUS
            <4>2. /\ a[m + 1] < b[m + 1] /\ b[m + 1] < c[m + 1]
                  /\ m + 1 \in 1 .. Len(a) /\ m + 1 \in 1 .. Len(b) /\ m + 1 \in 1 .. Len(c)
                BY <1>1, <2>3, <2>6, <4>1
            <4>3. a[m + 1] \in Nat /\ b[m + 1] \in Nat /\ c[m + 1] \in Nat
                BY <1>1, <4>2
            <4>4. QED BY <4>2, <4>3
        <3>3. BelowAt(a, c, m)
            BY <2>3, <2>6, <3>1, <3>2 DEF BelowAt, SameFirst
        <3>4. QED BY <1>1, <3>3
    <2>7. QED BY <2>4, <2>5, <2>6
<1>4. ASSUME a # b, ~ Stores!KeyBelow(a, b) PROVE Stores!KeyBelow(b, a)
    <2> DEFINE Differs(n) == n >= Len(a) \/ n >= Len(b) \/ a[n + 1] # b[n + 1]
               T == {n \in Nat : Differs(n)}
    <2>1. T \subseteq Nat /\ T # {}
        <3>1. Len(a) \in T
            BY <1>1
        <3>2. QED BY <3>1
    <2>2. PICK n \in T : \A m \in T : n <= m
        BY <2>1, LeastNatural
    <2>3. n \in Nat /\ Differs(n) /\ \A m \in Nat : m < n => ~ Differs(m)
        BY <2>2
    <2>4. \A i \in 1 .. n : i <= Len(a) /\ i <= Len(b) /\ a[i] = b[i]
        <3>1. SUFFICES ASSUME NEW i \in 1 .. n
                       PROVE  i <= Len(a) /\ i <= Len(b) /\ a[i] = b[i]
            OBVIOUS
        <3>2. i - 1 \in Nat /\ i - 1 < n /\ (i - 1) + 1 = i
            BY <2>3
        <3>3. ~ (i - 1 >= Len(a)) /\ ~ (i - 1 >= Len(b)) /\ a[i] = b[i]
            BY <2>3, <3>2
        <3>4. QED BY <1>1, <3>2, <3>3
    <2>5. n <= Len(a) /\ n <= Len(b)
        <3>1. CASE n = 0
            BY <1>1, <3>1
        <3>2. CASE n # 0
            <4>1. n \in 1 .. n
                BY <2>3, <3>2
            <4>2. QED BY <2>4, <4>1
        <3>3. QED BY <3>1, <3>2
    <2>6. SameFirst(a, b, n) /\ SameFirst(b, a, n)
        BY <2>4 DEF SameFirst
    <2>7. ~ BelowAt(a, b, n)
        BY <1>1, <1>4, <2>3
    <2>8. BelowAt(b, a, n)
        <3>1. CASE n = Len(a)
            <4>1. n = Len(b)
                BY <1>1, <2>3, <2>5, <2>6, <2>7, <3>1 DEF BelowAt
            <4>2. a = b
                <5>1. a \in Seq(Nat) /\ b \in Seq(Nat) /\ Len(a) = Len(b)
                      /\ \A i \in 1 .. Len(a) : a[i] = b[i]
                    BY <2>4, <3>1, <4>1 DEF Bytes
                <5>2. a = [i \in 1 .. Len(a) |-> a[i]] /\ b = [i \in 1 .. Len(b) |-> b[i]]
                    BY <5>1
                <5> DEFINE m == Len(a)
                <5>3. Len(b) = m /\ \A i \in 1 .. m : a[i] = b[i]
                    BY <5>1
                <5> HIDE DEF m
                <5>4. [i \in 1 .. m |-> a[i]] = [i \in 1 .. m |-> b[i]]
                    BY <5>3
                <5>5. QED BY <5>2, <5>3, <5>4 DEF m
            <4>3. QED BY <1>4, <4>2
        <3>2. CASE n < Len(a)
            <4>1. CASE n = Len(b)
                BY <1>1, <2>3, <2>5, <2>6, <3>2, <4>1 DEF BelowAt
            <4>2. CASE n < Len(b)
                <5>1. n + 1 \in 1 .. Len(a) /\ n + 1 \in 1 .. Len(b)
                    BY <1>1, <2>3, <3>2, <4>2
                <5>2. a[n + 1] # b[n + 1]
                    BY <1>1, <2>3, <3>2, <4>2
                <5>3. ~ (a[n + 1] < b[n + 1])
                    BY <2>5, <2>6, <2>7, <4>2 DEF BelowAt
                <5>4. b[n + 1] < a[n + 1]
                    <6>1. a[n + 1] \in Nat /\ b[n + 1] \in Nat
                        BY <1>1, <5>1
                    <6>2. QED BY <5>2, <5>3, <6>1
                <5>5. QED BY <2>5, <2>6, <3>2, <5>4 DEF BelowAt
            <4>3. QED BY <1>1, <2>3, <2>5, <4>1, <4>2
        <3>3. QED BY <1>1, <2>3, <2>5, <3>1, <3>2
    <2>9. QED BY <1>1, <2>3, <2>8
<1>5. QED BY <1>2, <1>3, <1>4

\* The keys that have a prefix begin with the prefix itself, and nothing that
\* has not comes between.
LEMMA PrefixesTogether ==
    ASSUME NEW p \in Bytes, NEW k \in Bytes, Stores!IsPrefix(p, k)
    PROVE  /\ ~ Stores!KeyBelow(k, p)
           /\ \A q \in Bytes : /\ ~ Stores!KeyBelow(q, p)
                               /\ ~ Stores!IsPrefix(p, q)
                               => Stores!KeyBelow(k, q)
<1>1. ASSUME NEW x \in Bytes
      PROVE  Stores!IsPrefix(p, x) <=> Len(p) <= Len(x) /\ SameFirst(p, x, Len(p))
    <2> DEFINE n == Len(p)
    <2>1. n \in Nat /\ n <= Len(p) /\ Len(x) \in Nat
        BY KeyBelowIs
    <2> HIDE DEF n
    <2>2. n <= Len(x) => (SubSeq(p, 1, n) = SubSeq(x, 1, n) <=> SameFirst(p, x, n))
        BY <2>1, FirstOf
    <2>3. Stores!IsPrefix(p, x) <=> n <= Len(x) /\ SubSeq(p, 1, n) = SubSeq(x, 1, n)
        BY DEF Stores!IsPrefix, n
    <2>4. Stores!IsPrefix(p, x) <=> n <= Len(x) /\ SameFirst(p, x, n)
        BY <2>2, <2>3
    <2>5. QED BY <2>4 DEF n
<1>2. /\ Len(p) \in Nat /\ Len(k) \in Nat
      /\ \A i \in 1 .. Len(p) : p[i] \in Nat
      /\ \A i \in 1 .. Len(k) : k[i] \in Nat
    BY KeyBelowIs
<1>3. Len(p) <= Len(k) /\ \A i \in 1 .. Len(p) : p[i] = k[i]
    BY <1>1 DEF SameFirst
<1>4. ~ Stores!KeyBelow(k, p)
    <2>1. SUFFICES ASSUME NEW n \in Nat, BelowAt(k, p, n) PROVE FALSE
        BY KeyBelowIs
    <2>2. n < Len(p) /\ n < Len(k) /\ n + 1 \in 1 .. Len(p)
        BY <1>2, <1>3, <2>1 DEF BelowAt
    <2>3. k[n + 1] < p[n + 1] /\ p[n + 1] = k[n + 1] /\ p[n + 1] \in Nat
        BY <1>2, <1>3, <2>1, <2>2 DEF BelowAt
    <2>4. QED BY <2>3
<1>5. ASSUME NEW q \in Bytes, ~ Stores!KeyBelow(q, p), ~ Stores!IsPrefix(p, q)
      PROVE  Stores!KeyBelow(k, q)
    <2>1. p # q
        <3>1. SUFFICES ASSUME p = q PROVE FALSE
            OBVIOUS
        <3>2. Stores!IsPrefix(p, p)
            BY <1>1, <1>2 DEF SameFirst
        <3>3. QED BY <1>5, <3>1, <3>2
    <2>2. Stores!KeyBelow(p, q)
        BY <1>5, <2>1, KeysOrdered
    <2>3. PICK n \in Nat : BelowAt(p, q, n)
        BY <2>2, KeyBelowIs
    <2>4. Len(q) \in Nat
        BY KeyBelowIs
    <2>5. n < Len(p)
        <3>1. SUFFICES ASSUME n = Len(p) PROVE FALSE
            BY <1>2, <2>3 DEF BelowAt
        <3>2. Len(p) <= Len(q) /\ SameFirst(p, q, Len(p))
            BY <1>2, <2>3, <2>4, <3>1 DEF BelowAt
        <3>3. QED BY <1>1, <1>5, <3>2
    <2>6. /\ n < Len(q) /\ p[n + 1] < q[n + 1] /\ \A i \in 1 .. n : p[i] = q[i]
        BY <2>3, <2>5 DEF BelowAt, SameFirst
    <2>7. n < Len(k) /\ n + 1 \in 1 .. Len(p) /\ \A i \in 1 .. n : i \in 1 .. Len(p)
        BY <1>2, <1>3, <2>5
    <2>8. k[n + 1] < q[n + 1] /\ \A i \in 1 .. n : k[i] = q[i]
        BY <1>3, <2>6, <2>7
    <2>9. BelowAt(k, q, n)
        BY <1>2, <2>6, <2>7, <2>8 DEF BelowAt, SameFirst
    <2>10. QED BY <2>9, KeyBelowIs
<1>6. QED BY <1>4, <1>5

-------------------------------------------------------------------------------
(* What the iterators give. *)

\* What an iterator yields, and the order of it.
Pair == Bytes \X Nat
PairOrder == {e \in Pair \X Pair : Stores!PairBelow(e[1], e[2])}

\* The repositories count as the other modules do.
LEMMA CountsAgree ==
    /\ \A S : Stores!IsFiniteSet(S) = IsFiniteSet(S)
    /\ \A S : Stores!Cardinality(S) = Cardinality(S)
<1>1. \A S : Stores!IsFiniteSet(S) = IsFiniteSet(S)
    BY DEF Stores!IsFiniteSet, IsFiniteSet
<1>2. \A S : Stores!Cardinality(S) = Cardinality(S)
    BY DEF Stores!Cardinality, Cardinality
<1>3. QED BY <1>1, <1>2

\* The order of pairs is one, and total.
LEMMA PairsOrdered ==
    /\ \A S \in SUBSET Pair : Orders(PairOrder, S)
    /\ \A x, y \in Pair : <<x, y>> \in PairOrder <=> Stores!PairBelow(x, y)
<1>1. \A x \in Pair : x[1] \in Bytes /\ x[2] \in Nat /\ x = <<x[1], x[2]>>
    BY DEF Pair
<1>2. \A x, y \in Pair : <<x, y>> \in PairOrder <=> Stores!PairBelow(x, y)
    BY DEF PairOrder
<1>3. \A x, y \in Pair : Stores!PairBelow(x, y) <=>
          Stores!KeyBelow(x[1], y[1]) \/ (x[1] = y[1] /\ x[2] < y[2])
    BY DEF Stores!PairBelow
<1>4. ASSUME NEW x \in Pair, NEW y \in Pair, NEW z \in Pair
      PROVE  /\ ~ Stores!PairBelow(x, x)
             /\ Stores!PairBelow(x, y) /\ Stores!PairBelow(y, z) => Stores!PairBelow(x, z)
             /\ x = y \/ Stores!PairBelow(x, y) \/ Stores!PairBelow(y, x)
    <2> DEFINE a == x[1]
               b == y[1]
               c == z[1]
               u == x[2]
               v == y[2]
               w == z[2]
    <2>1. /\ a \in Bytes /\ b \in Bytes /\ c \in Bytes /\ u \in Nat /\ v \in Nat /\ w \in Nat
          /\ x = y <=> a = b /\ u = v
          /\ Stores!PairBelow(x, x) <=> Stores!KeyBelow(a, a) \/ (a = a /\ u < u)
          /\ Stores!PairBelow(x, y) <=> Stores!KeyBelow(a, b) \/ (a = b /\ u < v)
          /\ Stores!PairBelow(y, x) <=> Stores!KeyBelow(b, a) \/ (b = a /\ v < u)
          /\ Stores!PairBelow(y, z) <=> Stores!KeyBelow(b, c) \/ (b = c /\ v < w)
          /\ Stores!PairBelow(x, z) <=> Stores!KeyBelow(a, c) \/ (a = c /\ u < w)
        BY <1>1, <1>3
    <2> HIDE DEF a, b, c, u, v, w
    <2>2. /\ ~ Stores!KeyBelow(a, a)
          /\ Stores!KeyBelow(a, b) /\ Stores!KeyBelow(b, c) => Stores!KeyBelow(a, c)
          /\ a = b \/ Stores!KeyBelow(a, b) \/ Stores!KeyBelow(b, a)
        BY <2>1, KeysOrdered
    <2>3. ~ (u < u) /\ (u < v /\ v < w => u < w) /\ (u = v \/ u < v \/ v < u)
        BY <2>1
    <2>4. QED BY <2>1, <2>2, <2>3
<1>5. ASSUME NEW S \in SUBSET Pair PROVE Orders(PairOrder, S)
    <2>1. \A x \in S : x \in Pair
        OBVIOUS
    <2>2. QED BY <1>2, <1>4, <2>1 DEF Orders
<1>6. QED BY <1>2, <1>5

\* An iterator over some pairs has them in order.
LEMMA InOrderIs ==
    ASSUME NEW S \in SUBSET Pair, IsFiniteSet(S)
    PROVE  Stores!InOrder(S) = Ranked(S, PairOrder)
<1>1. Orders(PairOrder, S)
    BY PairsOrdered
<1>2. \A x \in S : {y \in S : Stores!PairBelow(y, x)} = Before(S, PairOrder, x)
    BY PairsOrdered DEF Before
<1> DEFINE n == Cardinality(S)
           s == Ranked(S, PairOrder)
           At(i) == CHOOSE x \in S :
                        Stores!Cardinality({y \in S : Stores!PairBelow(y, x)}) = i - 1
<1>3. Stores!InOrder(S) = [i \in 1 .. Stores!Cardinality(S) |-> At(i)]
    BY DEF Stores!InOrder, Stores!Sorted
<1>4. /\ n \in Nat /\ s \in [1 .. n -> S]
      /\ \A i \in 1 .. n : Rank(S, PairOrder, s[i]) = i - 1
      /\ \A x \in S : s[Rank(S, PairOrder, x) + 1] = x
    BY <1>1, RankedIs
<1>5. Stores!Cardinality(S) = n
    BY CountsAgree
<1> HIDE DEF n, s
<1>6. \A x \in S : Stores!Cardinality({y \in S : Stores!PairBelow(y, x)}) = Rank(S, PairOrder, x)
    BY <1>2, CountsAgree DEF Rank
<1>7. ASSUME NEW i \in 1 .. n PROVE At(i) = s[i]
    <2>1. s[i] \in S /\ Stores!Cardinality({y \in S : Stores!PairBelow(y, s[i])}) = i - 1
        BY <1>4, <1>6
    <2>2. At(i) \in S /\ Rank(S, PairOrder, At(i)) = i - 1
        BY <2>1, <1>6
    <2>3. i - 1 + 1 = i
        OBVIOUS
    <2>4. QED BY <1>4, <2>2, <2>3
<1> HIDE DEF At
<1>8. QED BY <1>3, <1>4, <1>5, <1>7 DEF s

\* A pair and the side that it comes from, and how the sides are merged.
Tag == Pair \X {0, 1}
TagBelow(x, y) == Stores!PairBelow(x[1], y[1]) \/ (x[1] = y[1] /\ x[2] < y[2])
TagOrder == {e \in Tag \X Tag : TagBelow(e[1], e[2])}
Tagged(L, R) == {<<p, 0>> : p \in L} \union {<<p, 1>> : p \in R}

\* The order in which an interleaving takes pairs from the two sides.
LEMMA TagsOrdered ==
    /\ \A S \in SUBSET Tag : Orders(TagOrder, S)
    /\ \A x, y \in Tag : <<x, y>> \in TagOrder <=> TagBelow(x, y)
<1>1. \A x \in Tag : x[1] \in Pair /\ x[2] \in {0, 1} /\ x = <<x[1], x[2]>>
    BY DEF Tag
<1>2. \A x, y \in Tag : <<x, y>> \in TagOrder <=> TagBelow(x, y)
    BY DEF TagOrder
<1>3. \A a, b, c \in Pair : /\ ~ Stores!PairBelow(a, a)
                            /\ Stores!PairBelow(a, b) /\ Stores!PairBelow(b, c)
                                   => Stores!PairBelow(a, c)
                            /\ a = b \/ Stores!PairBelow(a, b) \/ Stores!PairBelow(b, a)
    <2>1. Orders(PairOrder, Pair)
        BY PairsOrdered
    <2>2. QED BY <2>1, PairsOrdered DEF Orders
<1>4. ASSUME NEW x \in Tag, NEW y \in Tag, NEW z \in Tag
      PROVE  /\ ~ TagBelow(x, x)
             /\ TagBelow(x, y) /\ TagBelow(y, z) => TagBelow(x, z)
             /\ x = y \/ TagBelow(x, y) \/ TagBelow(y, x)
    <2> DEFINE a == x[1]
               b == y[1]
               c == z[1]
               u == x[2]
               v == y[2]
               w == z[2]
    <2>1. /\ a \in Pair /\ b \in Pair /\ c \in Pair /\ u \in Nat /\ v \in Nat /\ w \in Nat
          /\ x = y <=> a = b /\ u = v
          /\ TagBelow(x, x) <=> Stores!PairBelow(a, a) \/ (a = a /\ u < u)
          /\ TagBelow(x, y) <=> Stores!PairBelow(a, b) \/ (a = b /\ u < v)
          /\ TagBelow(y, x) <=> Stores!PairBelow(b, a) \/ (b = a /\ v < u)
          /\ TagBelow(y, z) <=> Stores!PairBelow(b, c) \/ (b = c /\ v < w)
          /\ TagBelow(x, z) <=> Stores!PairBelow(a, c) \/ (a = c /\ u < w)
        BY <1>1 DEF TagBelow
    <2> HIDE DEF a, b, c, u, v, w
    <2>2. /\ ~ Stores!PairBelow(a, a)
          /\ Stores!PairBelow(a, b) /\ Stores!PairBelow(b, c) => Stores!PairBelow(a, c)
          /\ a = b \/ Stores!PairBelow(a, b) \/ Stores!PairBelow(b, a)
        BY <1>3, <2>1
    <2>3. ~ (u < u) /\ (u < v /\ v < w => u < w) /\ (u = v \/ u < v \/ v < u)
        BY <2>1
    <2>4. QED BY <2>1, <2>2, <2>3
<1>5. ASSUME NEW S \in SUBSET Tag PROVE Orders(TagOrder, S)
    <2>1. \A x \in S : x \in Tag
        OBVIOUS
    <2>2. QED BY <1>2, <1>4, <2>1 DEF Orders
<1>6. QED BY <1>2, <1>5

\* What is interleaved is finite, and has a side's pairs once.
LEMMA TaggedIs ==
    ASSUME NEW L \in SUBSET Pair, IsFiniteSet(L), NEW R \in SUBSET Pair, IsFiniteSet(R)
    PROVE  /\ Tagged(L, R) \in SUBSET Tag
           /\ IsFiniteSet(Tagged(L, R))
<1>1. Tagged(L, R) \in SUBSET Tag
    BY DEF Tagged, Tag
<1>2. IsFiniteSet((L \union R) \X {0, 1})
    <2>1. IsFiniteSet(L \union R)
        BY FS_Union
    <2>2. IsFiniteSet({0, 1})
        <3>1. IsFiniteSet({0}) /\ {0, 1} = {0} \union {1}
            BY FS_Singleton
        <3>2. QED BY <3>1, FS_AddElement
    <2>3. QED BY <2>1, <2>2, FS_Product
<1>3. Tagged(L, R) \in SUBSET ((L \union R) \X {0, 1})
    BY DEF Tagged
<1>4. IsFiniteSet(Tagged(L, R))
    BY <1>2, <1>3, FS_Subset
<1>5. QED BY <1>1, <1>4

\* interleave_ordered gives the pairs of both sides, in order.
LEMMA InterleavedIs ==
    ASSUME NEW L \in SUBSET Pair, IsFiniteSet(L), NEW R \in SUBSET Pair, IsFiniteSet(R)
    PROVE  /\ Cardinality(Tagged(L, R)) \in Nat
           /\ Ranked(Tagged(L, R), TagOrder) \in [1 .. Cardinality(Tagged(L, R)) -> Tagged(L, R)]
           /\ Stores!Interleaved(L, R) = [i \in 1 .. Cardinality(Tagged(L, R)) |->
                                             Ranked(Tagged(L, R), TagOrder)[i][1]]
<1> DEFINE S == Tagged(L, R)
           n == Cardinality(S)
           s == Ranked(S, TagOrder)
           At(i) == CHOOSE x \in S : Stores!Cardinality({y \in S : TagBelow(y, x)}) = i - 1
           merged == [i \in 1 .. Stores!Cardinality(S) |-> At(i)]
<1>1. S \in SUBSET Tag /\ IsFiniteSet(S) /\ Orders(TagOrder, S)
    BY TaggedIs, TagsOrdered
<1>2. \A x \in S : {y \in S : TagBelow(y, x)} = Before(S, TagOrder, x)
    BY <1>1, TagsOrdered DEF Before
<1>3. Stores!Interleaved(L, R) = [i \in DOMAIN merged |-> merged[i][1]]
    BY DEF Stores!Interleaved, Stores!Sorted, Tagged, TagBelow
<1>4. /\ n \in Nat /\ s \in [1 .. n -> S]
      /\ \A i \in 1 .. n : Rank(S, TagOrder, s[i]) = i - 1
      /\ \A x \in S : s[Rank(S, TagOrder, x) + 1] = x
    BY <1>1, RankedIs
<1>5. Stores!Cardinality(S) = n
    BY CountsAgree
<1>6. \A x \in S : Stores!Cardinality({y \in S : TagBelow(y, x)}) = Rank(S, TagOrder, x)
    BY <1>2, CountsAgree DEF Rank
<1> HIDE DEF n, s, S
<1>7. ASSUME NEW i \in 1 .. n PROVE At(i) = s[i]
    <2>1. s[i] \in S /\ Stores!Cardinality({y \in S : TagBelow(y, s[i])}) = i - 1
        BY <1>4, <1>6
    <2>2. At(i) \in S /\ Rank(S, TagOrder, At(i)) = i - 1
        BY <2>1, <1>6
    <2>3. i - 1 + 1 = i
        OBVIOUS
    <2>4. QED BY <1>4, <2>2, <2>3
<1> HIDE DEF At
<1>8. merged = s
    BY <1>4, <1>5, <1>7
<1> HIDE DEF merged
<1>9. Stores!Interleaved(L, R) = [i \in 1 .. n |-> s[i][1]]
    BY <1>3, <1>4, <1>8
<1>10. QED BY <1>4, <1>9 DEF n, s, S

\* What an iterator over two sides shows.
LEMMA InterleavedShows ==
    ASSUME NEW L \in SUBSET Pair, IsFiniteSet(L), NEW R \in SUBSET Pair, IsFiniteSet(R),
           NEW s, s = Stores!Interleaved(L, R)
    PROVE  /\ \A i, j \in DOMAIN s : i < j => ~ Stores!PairBelow(s[j], s[i])
           /\ \A i \in DOMAIN s : s[i] \in L \union R
           /\ \A p \in L \union R : \E i \in DOMAIN s : s[i] = p
           /\ L = {} => /\ s = Stores!InOrder(R)
                        /\ Len(s) = Cardinality(R)
<1> DEFINE T == Tagged(L, R)
           n == Cardinality(T)
           m == Ranked(T, TagOrder)
<1>1. /\ n \in Nat /\ m \in [1 .. n -> T]
      /\ s = [i \in 1 .. n |-> m[i][1]]
    BY InterleavedIs
<1>2. /\ T \in SUBSET Tag /\ IsFiniteSet(T) /\ Orders(TagOrder, T)
    BY TaggedIs, TagsOrdered
<1>3. /\ \A x \in T : \E i \in 1 .. n : m[i] = x
      /\ \A i, j \in 1 .. n : i < j => <<m[i], m[j]>> \in TagOrder
    BY <1>2, RankedIs
<1>4. /\ \A x \in T : x[1] \in L \union R /\ (L = {} => x[1] \in R /\ x[2] = 1)
      /\ \A p \in L \union R : \E x \in T : x[1] = p
    <2>1. ASSUME NEW x \in T
          PROVE  x[1] \in L \union R /\ (L = {} => x[1] \in R /\ x[2] = 1)
        <3>1. CASE \E p \in L : x = <<p, 0>>
            BY <3>1
        <3>2. CASE \E p \in R : x = <<p, 1>>
            BY <3>2
        <3>3. QED BY <3>1, <3>2 DEF Tagged
    <2>2. ASSUME NEW p \in L \union R PROVE \E x \in T : x[1] = p
        <3>1. CASE p \in L
            <4>1. <<p, 0>> \in T /\ <<p, 0>>[1] = p
                BY <3>1 DEF Tagged
            <4>2. QED BY <4>1
        <3>2. CASE p \in R
            <4>1. <<p, 1>> \in T /\ <<p, 1>>[1] = p
                BY <3>2 DEF Tagged
            <4>2. QED BY <4>1
        <3>3. QED BY <3>1, <3>2
    <2>3. QED BY <2>1, <2>2
<1> HIDE DEF T, n, m
<1>5. DOMAIN s = 1 .. n /\ \A i \in 1 .. n : s[i] = m[i][1] /\ m[i] \in T /\ m[i] \in Tag
    BY <1>1, <1>2
<1>6. ASSUME NEW i \in 1 .. n, NEW j \in 1 .. n, i < j
      PROVE  Stores!PairBelow(s[i], s[j]) \/ (s[i] = s[j] /\ m[i][2] < m[j][2])
    <2>1. <<m[i], m[j]>> \in TagOrder /\ m[i] \in Tag /\ m[j] \in Tag
        BY <1>3, <1>5, <1>6
    <2>2. TagBelow(m[i], m[j])
        BY <2>1, TagsOrdered
    <2>3. QED BY <1>5, <2>2 DEF TagBelow
<1>7. \A i \in 1 .. n : s[i] \in L \union R /\ s[i] \in Pair
    BY <1>4, <1>5
<1>8. ASSUME NEW i \in 1 .. n, NEW j \in 1 .. n, i < j
      PROVE  ~ Stores!PairBelow(s[j], s[i])
    <2>1. Orders(PairOrder, Pair)
        BY PairsOrdered
    <2> DEFINE a == s[i]
               b == s[j]
    <2>2. a \in Pair /\ b \in Pair /\ (Stores!PairBelow(a, b) \/ a = b)
        BY <1>6, <1>7, <1>8
    <2> HIDE DEF a, b
    <2>3. ~ Stores!PairBelow(b, a)
        BY <2>1, <2>2, PairsOrdered DEF Orders
    <2>4. QED BY <2>3 DEF a, b
<1>9. \A p \in L \union R : \E i \in 1 .. n : s[i] = p
    BY <1>3, <1>4, <1>5
<1>10. ASSUME L = {}
       PROVE  s = Stores!InOrder(R) /\ Len(s) = Cardinality(R)
    <2>1. s \in [1 .. n -> R] /\ \A p \in R : \E i \in 1 .. n : s[i] = p
        BY <1>1, <1>4, <1>5, <1>9, <1>10
    <2>2. ASSUME NEW i \in 1 .. n, NEW j \in 1 .. n, i < j
          PROVE  <<s[i], s[j]>> \in PairOrder
        <3>1. m[i][2] = 1 /\ m[j][2] = 1
            BY <1>4, <1>5, <1>10
        <3>2. Stores!PairBelow(s[i], s[j])
            BY <1>6, <2>2, <3>1
        <3>3. QED BY <1>7, <3>2, PairsOrdered
    <2>3. Orders(PairOrder, R)
        BY PairsOrdered
    <2>4. n = Cardinality(R) /\ s = Ranked(R, PairOrder)
        <3>1. n \in Nat
            BY <1>1
        <3>2. \A i, j \in 1 .. n : i < j => <<s[i], s[j]>> \in PairOrder
            BY <2>2
        <3> DEFINE Q == PairOrder
        <3> HIDE DEF Q
        <3>3. n = Cardinality(R) /\ s = Ranked(R, Q)
            BY <2>1, <2>3, <3>1, <3>2, OnlyRanked DEF Q
        <3>4. QED BY <3>3 DEF Q
    <2>5. Len(s) = n
        BY <1>1
    <2>6. QED BY <2>4, <2>5, InOrderIs
<1>11. QED BY <1>5, <1>7, <1>8, <1>9, <1>10

-------------------------------------------------------------------------------
(* Reads by prefix. *)

\* The least of some places, as the repositories compute it.
LEMMA StoresLeast ==
    ASSUME NEW T, T \subseteq Nat, T # {}
    PROVE  Stores!Min(T) \in T /\ \A y \in T : Stores!Min(T) <= y
BY LeastNatural DEF Stores!Min

\* The functions on the keys that a database is, in memory and on disk.
Keyed == [StoreKeys -> Nat \union {Vacant}]

\* The pairs of a database are finitely many pairs of bytes and values.
LEMMA PairsAre ==
    ASSUME Stores!StoreAssumption, NEW map \in Keyed
    PROVE  /\ Stores!Pairs(map) \in SUBSET Pair
           /\ IsFiniteSet(Stores!Pairs(map))
           /\ \A p \in Stores!Pairs(map) : p[1] \in StoreKeys /\ map[p[1]] = p[2] /\ p[2] # Vacant
           /\ \A k \in StoreKeys : map[k] # Vacant => <<k, map[k]>> \in Stores!Pairs(map)
           /\ \A p, q \in Stores!Pairs(map) : p[1] = q[1] => p = q
<1> DEFINE L == {k \in StoreKeys : map[k] # Vacant}
           f == [k \in L |-> <<k, map[k]>>]
           P == Stores!Pairs(map)
<1>1. DOMAIN map = StoreKeys /\ StoreKeys \subseteq Bytes /\ IsFiniteSet(StoreKeys)
    BY CountsAgree DEF Stores!StoreAssumption, Keyed, Bytes
<1>2. P = {<<k, map[k]>> : k \in L}
    BY <1>1 DEF Stores!Pairs
<1>3. \A k \in L : k \in StoreKeys /\ k \in Bytes /\ map[k] \in Nat /\ map[k] # Vacant
    BY <1>1 DEF Keyed
<1>4. IsFiniteSet(L)
    <2>1. L \in SUBSET StoreKeys
        OBVIOUS
    <2>2. QED BY <1>1, <2>1, FS_Subset
<1> HIDE DEF L, P
<1>5. f \in Surjection(L, P)
    BY <1>2 DEF Surjection
<1>6. IsFiniteSet(P)
    BY <1>4, <1>5, FS_Surjection
<1>7. \A p \in P : \E k \in L : p = <<k, map[k]>>
    BY <1>2
<1>8. \A p \in P : p \in Pair /\ p[1] \in StoreKeys /\ map[p[1]] = p[2] /\ p[2] # Vacant
    BY <1>3, <1>7 DEF Pair
<1>9. \A k \in StoreKeys : map[k] # Vacant => <<k, map[k]>> \in P
    BY <1>2 DEF L
<1>10. \A p, q \in P : p[1] = q[1] => p = q
    BY <1>7
<1>11. QED BY <1>6, <1>8, <1>9, <1>10 DEF P

\* The places of the pairs whose key has a prefix.
Having(s, prefix) == {i \in DOMAIN s : Stores!IsPrefix(prefix, s[i][1])}

\* From the first of them on, an iterator has what is not below the prefix.
FromThere(P, F, p, s, t) ==
    /\ Len(s) \in Nat /\ s \in [1 .. Len(s) -> P]
    /\ \A x \in P : \E i \in 1 .. Len(s) : s[i] = x
    /\ Having(s, p) # {} => /\ Stores!Min(Having(s, p)) \in Having(s, p)
                            /\ SubSeq(s, Stores!Min(Having(s, p)), Len(s)) = t
                            /\ Len(t) \in Nat \ {0}
                            /\ t[1] = s[Stores!Min(Having(s, p))]
    /\ Len(t) \in Nat /\ t \in [1 .. Len(t) -> F]

\* The pairs from a key on are those from the first place on whose key has it
\* as a prefix, if there is one: iter_from_prefix, in the mock and in RocksDB.
LEMMA FromFirst ==
    ASSUME NEW P \in SUBSET Pair, IsFiniteSet(P), NEW p \in Bytes,
           NEW s, s = Stores!InOrder(P),
           NEW F, F = {x \in P : ~ Stores!KeyBelow(x[1], p)}
    PROVE  FromThere(P, F, p, s, Stores!InOrder(F))
<1> DEFINE n == Cardinality(P)
           H == Having(s, p)
           m == Stores!Min(H)
           t == Stores!InOrder(F)
<1>1. /\ n \in Nat /\ s \in [1 .. n -> P]
      /\ \A x \in P : \E i \in 1 .. n : s[i] = x
      /\ \A i, j \in 1 .. n : i < j => <<s[i], s[j]>> \in PairOrder
    <2>1. s = Ranked(P, PairOrder)
        BY InOrderIs
    <2>2. Orders(PairOrder, P)
        BY PairsOrdered
    <2>3. QED BY <2>1, <2>2, RankedIs
<1>2. F \in SUBSET P /\ IsFiniteSet(F) /\ F \in SUBSET Pair
    <2>1. F \in SUBSET P
        OBVIOUS
    <2>2. QED BY <2>1, FS_Subset
<1>3. t = Ranked(F, PairOrder) /\ Orders(PairOrder, F)
    BY <1>2, InOrderIs, PairsOrdered
<1> HIDE DEF n, t
<1>4. Len(t) \in Nat /\ t \in [1 .. Len(t) -> F]
    <2> DEFINE c == Cardinality(F)
    <2>1. c \in Nat /\ t \in [1 .. c -> F]
        BY <1>2, <1>3, RankedIs
    <2> HIDE DEF c
    <2>2. Len(t) = c
        BY <2>1
    <2>3. QED BY <2>1, <2>2
<1>5. Len(s) = n /\ DOMAIN s = 1 .. n
    BY <1>1
<1>6. ASSUME H # {}
      PROVE  /\ m \in H /\ SubSeq(s, m, n) = t /\ Len(t) \in Nat \ {0} /\ t[1] = s[m]
    <2>1. H \subseteq 1 .. n /\ H \subseteq Nat
        BY <1>5 DEF Having
    <2>2. m \in H /\ \A i \in H : m <= i
        BY <1>6, <2>1, StoresLeast
    <2>3. m \in 1 .. n /\ Stores!IsPrefix(p, s[m][1])
        BY <1>5, <2>2 DEF Having
    <2> HIDE DEF m, H
    <2>4. \A i \in 1 .. n : i < m => ~ Stores!IsPrefix(p, s[i][1])
        <3>1. SUFFICES ASSUME NEW i \in 1 .. n, i < m, Stores!IsPrefix(p, s[i][1]) PROVE FALSE
            OBVIOUS
        <3>2. i \in H
            BY <1>5, <3>1 DEF Having, H
        <3>3. m <= i
            BY <2>2, <3>2
        <3>4. QED BY <2>3, <3>1, <3>3
    <2>5. \A i \in 1 .. n : s[i] \in P /\ s[i] \in Pair /\ s[i][1] \in Bytes
        BY <1>1 DEF Pair
    <2> DEFINE k == s[m][1]
    <2>6. k \in Bytes /\ Stores!IsPrefix(p, k)
        BY <2>3, <2>5
    <2> HIDE DEF k
    <2>7. /\ ~ Stores!KeyBelow(k, p)
          /\ \A q \in Bytes : ~ Stores!KeyBelow(q, p) /\ ~ Stores!IsPrefix(p, q)
                                  => Stores!KeyBelow(k, q)
        BY <2>6, PrefixesTogether
    <2>8. \A i, j \in 1 .. n : i < j =>
              Stores!KeyBelow(s[i][1], s[j][1]) \/ s[i][1] = s[j][1]
        <3>1. SUFFICES ASSUME NEW i \in 1 .. n, NEW j \in 1 .. n, i < j
                       PROVE  Stores!KeyBelow(s[i][1], s[j][1]) \/ s[i][1] = s[j][1]
            OBVIOUS
        <3>2. <<s[i], s[j]>> \in PairOrder /\ s[i] \in Pair /\ s[j] \in Pair
            BY <1>1, <2>5, <3>1
        <3>3. Stores!PairBelow(s[i], s[j])
            BY <3>2, PairsOrdered
        <3>4. QED BY <3>3 DEF Stores!PairBelow
    <2>9. ASSUME NEW i \in 1 .. n PROVE s[i] \in F <=> m <= i
        <3> DEFINE q == s[i][1]
        <3>0. q \in Bytes /\ s[i] \in P
            BY <2>5
        <3>1. s[i] \in F <=> ~ Stores!KeyBelow(q, p)
            BY <3>0
        <3>2. CASE m = i
            BY <2>7, <3>1, <3>2 DEF k
        <3>3. CASE m < i
            <4>1. Stores!KeyBelow(k, q) \/ k = q
                BY <2>3, <2>8, <3>3 DEF k
            <4>2. CASE k = q
                <5> HIDE DEF q
                <5>1. ~ Stores!KeyBelow(q, p)
                    BY <2>7, <4>2
                <5>2. m <= i
                    BY <2>3, <3>3
                <5>3. QED BY <3>1, <5>1, <5>2
            <4>3. CASE Stores!KeyBelow(k, q)
                <5> HIDE DEF q
                <5>1. Stores!KeyBelow(q, p) => Stores!KeyBelow(k, p)
                    BY <2>6, <3>0, <4>3, KeysOrdered
                <5>2. QED BY <2>3, <2>7, <3>1, <3>3, <5>1
            <4>4. QED BY <4>1, <4>2, <4>3
        <3>4. CASE i < m
            <4>1. Stores!KeyBelow(q, k) \/ q = k
                BY <2>3, <2>8, <3>4 DEF k
            <4>2. ~ Stores!IsPrefix(p, q)
                BY <2>4, <3>4
            <4> HIDE DEF q
            <4>3. ~ Stores!KeyBelow(k, q)
                <5>1. Stores!KeyBelow(q, k) /\ Stores!KeyBelow(k, q) => Stores!KeyBelow(q, q)
                    BY <2>6, <3>0, KeysOrdered
                <5>2. ~ Stores!KeyBelow(q, q)
                    BY <3>0, KeysOrdered
                <5>3. QED BY <4>1, <5>1, <5>2
            <4>4. Stores!KeyBelow(q, p)
                BY <2>7, <3>0, <4>2, <4>3
            <4>5. QED BY <2>3, <3>1, <3>4, <4>4
        <3>5. QED BY <2>3, <3>2, <3>3, <3>4
    <2> DEFINE c == n - m + 1
               u == [j \in 1 .. c |-> s[m + j - 1]]
    <2>10. /\ c \in Nat \ {0}
           /\ \A j \in 1 .. c : m + j - 1 \in 1 .. n /\ m <= m + j - 1
           /\ \A i \in 1 .. n : m <= i => i - m + 1 \in 1 .. c /\ m + (i - m + 1) - 1 = i
           /\ \A i, j \in 1 .. c : i < j => m + i - 1 < m + j - 1
        BY <1>1, <2>3
    <2> HIDE DEF c
    <2>11. u \in [1 .. c -> F]
        BY <2>9, <2>10
    <2>12. \A x \in F : \E j \in 1 .. c : u[j] = x
        <3>1. SUFFICES ASSUME NEW x \in F PROVE \E j \in 1 .. c : u[j] = x
            OBVIOUS
        <3>2. PICK i \in 1 .. n : s[i] = x
            BY <1>1, <1>2
        <3>3. m <= i
            BY <2>9, <3>2
        <3>4. i - m + 1 \in 1 .. c /\ u[i - m + 1] = s[i]
            BY <2>10, <3>3
        <3>5. QED BY <3>2, <3>4
    <2>13. \A i, j \in 1 .. c : i < j => <<u[i], u[j]>> \in PairOrder
        BY <1>1, <2>10
    <2>14. u = t
        <3>1. c \in Nat
            BY <2>10
        <3> HIDE DEF u
        <3>2. u = Ranked(F, PairOrder)
            BY <1>2, <1>3, <2>11, <2>12, <2>13, <3>1, OnlyRanked
        <3>3. QED BY <1>3, <3>2
    <2>15. SubSeq(s, m, n) = u
        <3>1. SubSeq(s, m, n) = [j \in 1 .. (n - m + 1) |-> s[m + j - 1]]
            BY <1>1, <1>5, <2>3
        <3>2. QED BY <3>1 DEF c
    <2>16. Len(u) = c /\ u[1] = s[m]
        <3>1. 1 \in 1 .. c /\ m + 1 - 1 = m
            BY <2>3, <2>10
        <3>2. Len(u) = c
            BY <2>10
        <3>3. QED BY <3>1, <3>2
    <2>17. QED BY <2>2, <2>10, <2>14, <2>15, <2>16
<1>7. FromThere(P, F, p, s, t)
    BY <1>1, <1>4, <1>5, <1>6 DEF FromThere
<1>8. QED BY <1>7 DEF t

\* The mock reads by prefix as the real database does, if no key is shorter
\* than the prefix; and iterates as it does, if a key has it.
LEMMA PrefixReads ==
    ASSUME Stores!StoreAssumption, NEW map \in Keyed, NEW p \in Bytes,
           NEW st, st.disk = map
    PROVE  /\ (\A k \in StoreKeys : map[k] # Vacant => Len(k) >= Len(p)) =>
                  Stores!mock_get_by_prefix(map, p) = Stores!rocks_get_by_prefix(st, p)
           /\ (\E k \in StoreKeys : map[k] # Vacant /\ Stores!IsPrefix(p, k)) =>
                  Stores!mock_iter_from_prefix(map, p) = Stores!rocks_iter_from_prefix(st, p)
<1> DEFINE P == Stores!Pairs(map)
           s == Stores!InOrder(P)
           F == {x \in P : ~ Stores!KeyBelow(x[1], p)}
           t == Stores!InOrder(F)
           H == Having(s, p)
<1>1. /\ P \in SUBSET Pair /\ IsFiniteSet(P)
      /\ \A x \in P : x[1] \in StoreKeys /\ map[x[1]] = x[2] /\ x[2] # Vacant
      /\ \A k \in StoreKeys : map[k] # Vacant => <<k, map[k]>> \in P
    BY PairsAre
<1>2. F = Stores!FromKey(st.disk, p)
    BY DEF Stores!FromKey
<1> HIDE DEF P
<1>3. /\ Len(s) \in Nat /\ s \in [1 .. Len(s) -> P]
      /\ \A x \in P : \E i \in 1 .. Len(s) : s[i] = x
      /\ H # {} => /\ Stores!Min(H) \in H
                   /\ SubSeq(s, Stores!Min(H), Len(s)) = t
                   /\ Len(t) \in Nat \ {0}
                   /\ t[1] = s[Stores!Min(H)]
      /\ Len(t) \in Nat /\ t \in [1 .. Len(t) -> F]
    <2>1. FromThere(P, F, p, s, t)
        BY <1>1, FromFirst
    <2>2. QED BY <2>1 DEF FromThere
<1>4. \A x \in F : x \in P
    OBVIOUS
<1>5. H = {i \in DOMAIN s : Stores!IsPrefix(p, s[i][1])}
    BY DEF Having
<1>6. /\ Stores!mock_get_by_prefix(map, p) = IF H = {} THEN Vacant ELSE s[Stores!Min(H)][2]
      /\ Stores!mock_iter_from_prefix(map, p) =
             IF H = {} THEN <<>> ELSE SubSeq(s, Stores!Min(H), Len(s))
    BY DEF Stores!mock_get_by_prefix, Stores!mock_iter_from_prefix, Stores!mock_iter, P, Having
<1>7. /\ Stores!rocks_get_by_prefix(st, p) =
             CASE t = <<>>                               -> Vacant
               [] t # <<>> /\ Len(t[1][1]) < Len(p)      -> Stores!Panic
               [] t # <<>> /\ Len(t[1][1]) >= Len(p)     ->
                     IF Stores!IsPrefix(p, t[1][1]) THEN t[1][2] ELSE Vacant
      /\ Stores!rocks_iter_from_prefix(st, p) = t
    BY <1>2 DEF Stores!rocks_get_by_prefix, Stores!rocks_iter_from_prefix
<1> HIDE DEF s, F, t, H
<1>8. ASSUME \A k \in StoreKeys : map[k] # Vacant => Len(k) >= Len(p)
      PROVE  Stores!mock_get_by_prefix(map, p) = Stores!rocks_get_by_prefix(st, p)
    <2>1. CASE H # {}
        <3>1. /\ t # <<>> /\ t[1] = s[Stores!Min(H)] /\ t[1] \in P
              /\ Stores!IsPrefix(p, t[1][1])
            BY <1>3, <1>5, <2>1
        <3>2. t[1][1] \in Bytes /\ p \in Bytes /\ Len(t[1][1]) \in Nat /\ Len(p) \in Nat
            BY <1>1, <3>1 DEF Pair, Bytes
        <3>3. Len(t[1][1]) >= Len(p)
            BY <1>1, <1>8, <3>1
        <3>4. ~ (Len(t[1][1]) < Len(p))
            BY <3>2, <3>3
        <3>5. QED BY <1>6, <1>7, <2>1, <3>1, <3>3, <3>4
    <2>2. CASE H = {}
        <3>1. CASE t = <<>>
            BY <1>6, <1>7, <2>2, <3>1
        <3>2. CASE t # <<>>
            <4>1. t[1] \in P
                <5>1. Len(t) # 0
                    BY <1>3, <3>2
                <5>2. 1 \in 1 .. Len(t)
                    BY <1>3, <5>1
                <5>3. QED BY <1>3, <1>4, <5>2
            <4>2. ~ Stores!IsPrefix(p, t[1][1])
                <5>1. PICK i \in 1 .. Len(s) : s[i] = t[1]
                    BY <1>3, <4>1
                <5>2. i \in DOMAIN s
                    BY <1>3
                <5>3. QED BY <1>5, <2>2, <5>1, <5>2
            <4>3. t[1][1] \in Bytes /\ Len(t[1][1]) \in Nat /\ Len(p) \in Nat
                BY <1>1, <4>1 DEF Pair, Bytes
            <4>4. Len(t[1][1]) >= Len(p)
                BY <1>1, <1>8, <4>1
            <4>5. ~ (Len(t[1][1]) < Len(p))
                BY <4>3, <4>4
            <4>6. QED BY <1>6, <1>7, <2>2, <3>2, <4>2, <4>4, <4>5
        <3>3. QED BY <3>1, <3>2
    <2>3. QED BY <2>1, <2>2
<1>9. ASSUME NEW k \in StoreKeys, map[k] # Vacant, Stores!IsPrefix(p, k)
      PROVE  Stores!mock_iter_from_prefix(map, p) = Stores!rocks_iter_from_prefix(st, p)
    <2>1. PICK i \in 1 .. Len(s) : s[i] = <<k, map[k]>>
        BY <1>1, <1>3, <1>9
    <2>2. i \in DOMAIN s /\ s[i][1] = k
        BY <1>3, <2>1
    <2>3. H # {}
        BY <1>5, <1>9, <2>2
    <2>4. QED BY <1>3, <1>6, <1>7, <2>3
<1>10. QED BY <1>8, <1>9

-------------------------------------------------------------------------------
(* What a transaction makes of a database. *)

\* The databases of the real repository, and the operations on one.
Store == [buf : [StoreKeys -> Nat \union {Deleted, Unbuffered}], disk : Keyed]
Op == [key : StoreKeys, val : Nat \union {Deleted}]

\* The greatest member, as the repositories compute it.
LEMMA GreatestAgree == \A T : Stores!Max(T) = Max(T)
BY DEF Stores!Max, Max

\* What an operation makes of what is visible.
Set(map, op) == [map EXCEPT ![op.key] = IF op.val = Deleted THEN Vacant ELSE op.val]

\* It stays a database.
LEMMA SetKeyed ==
    ASSUME NEW map \in Keyed, NEW op \in Op PROVE Set(map, op) \in Keyed
BY DEF Set, Keyed, Op

\* get: the overlay first.
LEMMA ViewIs ==
    ASSUME Stores!StoreAssumption, NEW st \in Store
    PROVE  /\ Stores!View(st) \in Keyed
           /\ \A k \in StoreKeys : Stores!View(st)[k] =
                 IF st.buf[k] = Unbuffered THEN st.disk[k]
                 ELSE IF st.buf[k] = Deleted THEN Vacant ELSE st.buf[k]
<1>1. /\ st.buf \in [StoreKeys -> Nat \union {Deleted, Unbuffered}]
      /\ st.disk \in [StoreKeys -> Nat \union {Vacant}]
      /\ DOMAIN st.disk = StoreKeys
    BY DEF Store, Keyed
<1>2. Deleted # Unbuffered
    BY DEF Stores!StoreAssumption
<1>3. Stores!View(st) = [k \in StoreKeys |->
          CASE st.buf[k] = Unbuffered -> st.disk[k]
            [] st.buf[k] = Deleted    -> Vacant
            [] OTHER                  -> st.buf[k]]
    BY <1>1 DEF Stores!View
<1>4. ASSUME NEW k \in StoreKeys
      PROVE  /\ Stores!View(st)[k] =
                   IF st.buf[k] = Unbuffered THEN st.disk[k]
                   ELSE IF st.buf[k] = Deleted THEN Vacant ELSE st.buf[k]
             /\ Stores!View(st)[k] \in Nat \union {Vacant}
    <2>1. CASE st.buf[k] = Unbuffered
        BY <1>1, <1>2, <1>3, <2>1
    <2>2. CASE st.buf[k] = Deleted
        BY <1>1, <1>2, <1>3, <2>2
    <2>3. CASE st.buf[k] # Unbuffered /\ st.buf[k] # Deleted
        BY <1>1, <1>2, <1>3, <2>3
    <2>4. QED BY <2>1, <2>2, <2>3
<1>5. Stores!View(st) \in Keyed
    BY <1>3, <1>4 DEF Keyed
<1>6. QED BY <1>4, <1>5

\* What has just been opened, or flushed, shows what is on disk.
LEMMA OpenedView ==
    ASSUME Stores!StoreAssumption, NEW disk \in Keyed
    PROVE  /\ Stores!Opened(disk) \in Store
           /\ Stores!View(Stores!Opened(disk)) = disk
<1> DEFINE st == Stores!Opened(disk)
<1>1. st = [buf |-> [k \in StoreKeys |-> Unbuffered], disk |-> disk]
    BY DEF Stores!Opened, Stores!EmptyBuf
<1> HIDE DEF st
<1>2. st \in Store /\ st.disk = disk /\ \A k \in StoreKeys : st.buf[k] = Unbuffered
    BY <1>1 DEF Store
<1>3. Stores!View(st) \in Keyed /\ \A k \in StoreKeys : Stores!View(st)[k] = disk[k]
    BY <1>2, ViewIs
<1>4. Stores!View(st) = disk
    BY <1>3 DEF Keyed
<1>5. QED BY <1>2, <1>4 DEF st

\* flush and drop leave on disk what was visible.
LEMMA FlushedKeeps ==
    ASSUME Stores!StoreAssumption, NEW st \in Store
    PROVE  /\ Stores!Flushed(st) = Stores!Opened(Stores!View(st))
           /\ Stores!Flushed(st) \in Store
           /\ Stores!View(Stores!Flushed(st)) = Stores!View(st)
           /\ Stores!Dropped(st) = Stores!View(st)
<1>1. DOMAIN st.disk = StoreKeys
    BY DEF Store, Keyed
<1>2. Stores!Flushed(st) = Stores!Opened(Stores!View(st))
    BY <1>1 DEF Stores!Flushed, Stores!Opened, Stores!EmptyBuf
<1>3. Stores!Dropped(st) = Stores!View(st)
    BY DEF Stores!Dropped, Stores!Flushed
<1>4. Stores!View(st) \in Keyed
    BY ViewIs
<1>5. QED BY <1>2, <1>3, <1>4, OpenedView

\* put and delete, with or without the flush of an overlay that is too long.
LEMMA OneWritten ==
    ASSUME Stores!StoreAssumption, NEW st \in Store, NEW op \in Op
    PROVE  /\ Stores!Written(st, <<op>>, Limit) \in Store
           /\ Stores!View(Stores!Written(st, <<op>>, Limit)) = Set(Stores!View(st), op)
<1> DEFINE r == Stores!Recorded(st, <<op>>)
<1>1. Stores!Chunk(st, <<op>>, Limit) = 1
    <2> DEFINE full == {i \in DOMAIN <<op>> :
                          Stores!Overflows(Stores!Recorded(st, SubSeq(<<op>>, 1, i)), Limit)}
    <2>1. DOMAIN <<op>> = {1} /\ Len(<<op>>) = 1
        OBVIOUS
    <2>2. Stores!Chunk(st, <<op>>, Limit) = IF full = {} THEN Len(<<op>>) ELSE Stores!Min(full)
        BY DEF Stores!Chunk
    <2>3. full \subseteq {1}
        BY <2>1
    <2> HIDE DEF full
    <2>4. full \subseteq Nat
        BY <2>3
    <2>5. full # {} => Stores!Min(full) = 1
        BY <2>3, <2>4, StoresLeast
    <2>6. QED BY <2>1, <2>2, <2>5
<1>2. Stores!Written(st, <<op>>, Limit) =
          IF Stores!Overflows(r, Limit) THEN Stores!Flushed(r) ELSE r
    <2>1. SubSeq(<<op>>, 1, 1) = <<op>>
        <3> DEFINE s == <<op>>
        <3>1. s \in Seq(Op) /\ Len(s) = 1 /\ s[1] = op
            OBVIOUS
        <3>2. s = [i \in 1 .. 1 |-> op]
            OBVIOUS
        <3> HIDE DEF s
        <3>3. SubSeq(s, 1, 1) = [i \in 1 .. (1 - 1 + 1) |-> s[1 + i - 1]]
            BY <3>1
        <3>4. 1 - 1 + 1 = 1 /\ \A i \in 1 .. 1 : 1 + i - 1 = 1
            OBVIOUS
        <3>5. SubSeq(s, 1, 1) = [i \in 1 .. 1 |-> op]
            BY <3>1, <3>3, <3>4
        <3>6. QED BY <3>2, <3>5 DEF s
    <2>2. QED BY <1>1, <2>1 DEF Stores!Written
<1>3. /\ st.buf \in [StoreKeys -> Nat \union {Deleted, Unbuffered}]
      /\ st.disk \in Keyed /\ DOMAIN st.disk = StoreKeys
      /\ st = [buf |-> st.buf, disk |-> st.disk]
      /\ op.key \in StoreKeys /\ op.val \in Nat \union {Deleted}
    BY DEF Store, Op, Keyed
<1>4. r = [buf |-> [st.buf EXCEPT ![op.key] = op.val], disk |-> st.disk]
    <2> DEFINE On(k) == {i \in DOMAIN <<op>> : <<op>>[i].key = k}
               buf == [k \in StoreKeys |-> IF On(k) = {} THEN st.buf[k]
                                           ELSE <<op>>[Stores!Max(On(k))].val]
    <2>1. r = [st EXCEPT !.buf = buf]
        BY <1>3 DEF Stores!Recorded
    <2>2. ASSUME NEW k \in StoreKeys PROVE buf[k] = IF k = op.key THEN op.val ELSE st.buf[k]
        <3>1. DOMAIN <<op>> = {1} /\ <<op>>[1] = op
            OBVIOUS
        <3>2. On(k) = IF k = op.key THEN {1} ELSE {}
            BY <3>1
        <3>3. Stores!Max({1}) = 1
            <4>1. 1 \in Nat /\ {1} \subseteq 1 .. 1 /\ {1} # {}
                OBVIOUS
            <4>2. Max({1}) \in {1}
                BY <4>1, MaxIn
            <4>3. QED BY <4>2, GreatestAgree
        <3> HIDE DEF On
        <3>4. QED BY <3>1, <3>2, <3>3
    <2>3. buf = [st.buf EXCEPT ![op.key] = op.val]
        <3> HIDE DEF On
        <3>1. buf = [k \in StoreKeys |-> buf[k]]
            OBVIOUS
        <3> HIDE DEF buf
        <3>2. QED BY <1>3, <2>2, <3>1
    <2> HIDE DEF buf
    <2>4. QED BY <1>3, <2>1, <2>3
<1> HIDE DEF r
<1>5. r \in Store
    BY <1>3, <1>4 DEF Store
<1>6. Stores!View(r) = Set(Stores!View(st), op)
    <2>1. Deleted # Unbuffered /\ Unbuffered \notin Nat
        BY DEF Stores!StoreAssumption
    <2>2. /\ Stores!View(r) \in Keyed /\ Stores!View(st) \in Keyed
          /\ \A k \in StoreKeys : Stores!View(r)[k] =
                 IF r.buf[k] = Unbuffered THEN r.disk[k]
                 ELSE IF r.buf[k] = Deleted THEN Vacant ELSE r.buf[k]
          /\ \A k \in StoreKeys : Stores!View(st)[k] =
                 IF st.buf[k] = Unbuffered THEN st.disk[k]
                 ELSE IF st.buf[k] = Deleted THEN Vacant ELSE st.buf[k]
        BY <1>5, ViewIs
    <2>3. Set(Stores!View(st), op) \in Keyed
        BY <2>2, SetKeyed
    <2>4. r.disk = st.disk /\ \A k \in StoreKeys : r.buf[k] = IF k = op.key THEN op.val ELSE st.buf[k]
        BY <1>3, <1>4
    <2>5. \A k \in StoreKeys : Stores!View(r)[k] = Set(Stores!View(st), op)[k]
        <3>1. SUFFICES ASSUME NEW k \in StoreKeys
                       PROVE  Stores!View(r)[k] = Set(Stores!View(st), op)[k]
            OBVIOUS
        <3>2. Set(Stores!View(st), op)[k] =
                 IF k = op.key THEN (IF op.val = Deleted THEN Vacant ELSE op.val)
                 ELSE Stores!View(st)[k]
            BY <2>2 DEF Set, Keyed
        <3>3. op.val # Unbuffered
            BY <1>3, <2>1
        <3>4. QED BY <2>2, <2>4, <3>2, <3>3
    <2>6. QED BY <2>2, <2>3, <2>5 DEF Keyed
<1>7. /\ Stores!Flushed(r) \in Store
      /\ Stores!View(Stores!Flushed(r)) = Stores!View(r)
    BY <1>5, FlushedKeeps
<1>8. QED BY <1>2, <1>5, <1>6, <1>7

\* mock_written is a fold.
MockFold(h, map, ops) ==
    h = [S \in SUBSET DOMAIN ops |->
            IF S = {} THEN map
            ELSE LET x == Stores!Max(S)
                 IN  [h[S \ {x}] EXCEPT ![ops[x].key] =
                        IF ops[x].val = Deleted THEN Vacant ELSE ops[x].val]]

\* What it computes is at the whole list of that fold.
LEMMA MockIs ==
    ASSUME NEW map, NEW ops
    PROVE  Stores!mock_written(map, ops) = (CHOOSE h : MockFold(h, map, ops))[DOMAIN ops]
BY DEF Stores!mock_written, Stores!FoldLeft, Stores!MapThenFoldSet, MockFold

\* It sets one key after the other.
LEMMA MockSteps ==
    ASSUME NEW map \in Keyed, NEW ops \in Seq(Op)
    PROVE  \E f : /\ f[0] = map
                  /\ \A i \in 0 .. Len(ops) : f[i] \in Keyed
                  /\ \A i \in 1 .. Len(ops) : f[i] = Set(f[i - 1], ops[i])
                  /\ Stores!mock_written(map, ops) = f[Len(ops)]
<1> DEFINE n == Len(ops)
           step == [i \in 1 .. n |-> [x \in Keyed |-> Set(x, ops[i])]]
           h == CHOOSE h : MockFold(h, map, ops)
<1>1. n \in Nat /\ DOMAIN ops = 1 .. n /\ \A i \in 1 .. n : ops[i] \in Op
    OBVIOUS
<1> HIDE DEF n
<1>2. \A i \in 1 .. n : step[i] \in [Keyed -> Keyed]
    BY <1>1, SetKeyed
<1>3. \A i \in 1 .. n, x \in Keyed : step[i][x] = Set(x, ops[i])
    OBVIOUS
<1> HIDE DEF step
<1>4. \A S \in SUBSET (1 .. n) : S # {} => Stores!Max(S) = Max(S) /\ Max(S) \in 1 .. n
    <2>1. SUFFICES ASSUME NEW S \in SUBSET (1 .. n), S # {} PROVE Max(S) \in 1 .. n
        BY GreatestAgree
    <2>2. S \subseteq 1 .. n
        OBVIOUS
    <2>3. Max(S) \in S
        BY <1>1, <2>1, <2>2, MaxIn
    <2>4. QED BY <2>2, <2>3
<1>5. PICK g : IsFold(g, n, Keyed, map, step)
    BY <1>1, <1>2, FoldExists
<1>6. MockFold(g, map, ops)
    <2>1. /\ g \in [SUBSET (1 .. n) -> Keyed]
          /\ \A S \in SUBSET (1 .. n) :
                g[S] = IF S = {} THEN map ELSE step[Max(S)][g[S \ {Max(S)}]]
        BY <1>5 DEF IsFold
    <2>2. ASSUME NEW S \in SUBSET (1 .. n), S # {}
          PROVE  g[S] = [g[S \ {Stores!Max(S)}] EXCEPT ![ops[Stores!Max(S)].key] =
                           IF ops[Stores!Max(S)].val = Deleted THEN Vacant
                           ELSE ops[Stores!Max(S)].val]
        <3>1. S \ {Max(S)} \in SUBSET (1 .. n)
            OBVIOUS
        <3>2. g[S] = Set(g[S \ {Max(S)}], ops[Max(S)])
            BY <1>3, <1>4, <2>1, <2>2, <3>1
        <3>3. QED BY <1>4, <2>2, <3>2 DEF Set
    <2>3. g = [S \in SUBSET (1 .. n) |-> g[S]]
        BY <2>1
    <2> DEFINE G == g
    <2> HIDE DEF G
    <2>4. \A S \in SUBSET (1 .. n) : g[S] =
            IF S = {} THEN map
            ELSE [g[S \ {Stores!Max(S)}] EXCEPT ![ops[Stores!Max(S)].key] =
                           IF ops[Stores!Max(S)].val = Deleted THEN Vacant
                           ELSE ops[Stores!Max(S)].val]
        BY <2>1, <2>2
    <2>5. QED BY <1>1, <2>3, <2>4 DEF MockFold
<1>7. MockFold(h, map, ops)
    BY <1>6
<1>8. Stores!mock_written(map, ops) = h[1 .. n]
    BY <1>1, MockIs
<1> HIDE DEF h
<1>9. /\ h[{}] = map
      /\ \A S \in SUBSET (1 .. n) : S # {} => h[S] = Set(h[S \ {Max(S)}], ops[Max(S)])
    BY <1>1, <1>4, <1>7 DEF MockFold, Set
<1>10. \A S \in SUBSET (1 .. n) : S # {} /\ h[S \ {Max(S)}] \in Keyed =>
          h[S] = step[Max(S)][h[S \ {Max(S)}]]
    BY <1>3, <1>4, <1>9
<1>11. Grows(h, n, Keyed, map, step)
    BY <1>1, <1>2, <1>9, <1>10, FoldSteps
<1> DEFINE f == [i \in 0 .. n |-> h[1 .. i]]
<1>12. /\ f[0] = map /\ \A i \in 0 .. n : f[i] \in Keyed
       /\ \A i \in 1 .. n : f[i] = Set(f[i - 1], ops[i])
       /\ f[n] = h[1 .. n]
    <2>1. 0 \in 0 .. n /\ n \in 0 .. n /\ \A i \in 1 .. n : i \in 0 .. n /\ i - 1 \in 0 .. n
        BY <1>1
    <2>2. QED BY <1>3, <1>11, <2>1 DEF Grows
<1> HIDE DEF f
<1>13. QED BY <1>8, <1>12 DEF n

\* A database of the real repository after some operations, flushing when it
\* has to.
Batch(st, ops) ==
    Stores!FoldLeft(LAMBDA s, op : Stores!Written(s, <<op>>, Limit), st, ops)

\* It is a fold, too.
RocksFold(h, st, ops) ==
    h = [S \in SUBSET DOMAIN ops |->
            IF S = {} THEN st
            ELSE LET x == Stores!Max(S)
                 IN  Stores!Written(h[S \ {x}], <<ops[x]>>, Limit)]

\* What a batch computes is at the whole list of that fold.
LEMMA RocksIs ==
    ASSUME NEW st, NEW ops
    PROVE  Batch(st, ops) = (CHOOSE h : RocksFold(h, st, ops))[DOMAIN ops]
BY DEF Batch, Stores!FoldLeft, Stores!MapThenFoldSet, RocksFold

\* It writes one operation after the other.
LEMMA RocksSteps ==
    ASSUME Stores!StoreAssumption, NEW st \in Store, NEW ops \in Seq(Op)
    PROVE  \E f : /\ f[0] = st
                  /\ \A i \in 0 .. Len(ops) : f[i] \in Store
                  /\ \A i \in 1 .. Len(ops) :
                        f[i] = Stores!Written(f[i - 1], <<ops[i]>>, Limit)
                  /\ Batch(st, ops) = f[Len(ops)]
<1> DEFINE n == Len(ops)
           step == [i \in 1 .. n |-> [s \in Store |-> Stores!Written(s, <<ops[i]>>, Limit)]]
           h == CHOOSE h : RocksFold(h, st, ops)
<1>1. n \in Nat /\ DOMAIN ops = 1 .. n /\ \A i \in 1 .. n : ops[i] \in Op
    OBVIOUS
<1> HIDE DEF n
<1>2. \A i \in 1 .. n : step[i] \in [Store -> Store]
    BY <1>1, OneWritten
<1>3. \A i \in 1 .. n, s \in Store : step[i][s] = Stores!Written(s, <<ops[i]>>, Limit)
    OBVIOUS
<1> HIDE DEF step
<1>4. \A S \in SUBSET (1 .. n) : S # {} => Stores!Max(S) = Max(S) /\ Max(S) \in 1 .. n
    <2>1. SUFFICES ASSUME NEW S \in SUBSET (1 .. n), S # {} PROVE Max(S) \in 1 .. n
        BY GreatestAgree
    <2>2. S \subseteq 1 .. n
        OBVIOUS
    <2>3. Max(S) \in S
        BY <1>1, <2>1, <2>2, MaxIn
    <2>4. QED BY <2>2, <2>3
<1>5. PICK g : IsFold(g, n, Store, st, step)
    BY <1>1, <1>2, FoldExists
<1>6. RocksFold(g, st, ops)
    <2>1. /\ g \in [SUBSET (1 .. n) -> Store]
          /\ \A S \in SUBSET (1 .. n) :
                g[S] = IF S = {} THEN st ELSE step[Max(S)][g[S \ {Max(S)}]]
        BY <1>5 DEF IsFold
    <2>2. ASSUME NEW S \in SUBSET (1 .. n), S # {}
          PROVE  g[S] = Stores!Written(g[S \ {Stores!Max(S)}], <<ops[Stores!Max(S)]>>, Limit)
        <3>1. S \ {Max(S)} \in SUBSET (1 .. n)
            OBVIOUS
        <3>2. g[S] = Stores!Written(g[S \ {Max(S)}], <<ops[Max(S)]>>, Limit)
            BY <1>3, <1>4, <2>1, <2>2, <3>1
        <3>3. QED BY <1>4, <2>2, <3>2
    <2>3. g = [S \in SUBSET (1 .. n) |-> g[S]]
        BY <2>1
    <2>4. \A S \in SUBSET (1 .. n) : g[S] =
            IF S = {} THEN st
            ELSE Stores!Written(g[S \ {Stores!Max(S)}], <<ops[Stores!Max(S)]>>, Limit)
        BY <2>1, <2>2
    <2>5. QED BY <1>1, <2>3, <2>4 DEF RocksFold
<1>7. RocksFold(h, st, ops)
    BY <1>6
<1>8. Batch(st, ops) = h[1 .. n]
    BY <1>1, RocksIs
<1> HIDE DEF h
<1>9. /\ h[{}] = st
      /\ \A S \in SUBSET (1 .. n) : S # {} =>
            h[S] = Stores!Written(h[S \ {Max(S)}], <<ops[Max(S)]>>, Limit)
    BY <1>1, <1>4, <1>7 DEF RocksFold
<1>10. \A S \in SUBSET (1 .. n) : S # {} /\ h[S \ {Max(S)}] \in Store =>
          h[S] = step[Max(S)][h[S \ {Max(S)}]]
    BY <1>3, <1>4, <1>9
<1>11. Grows(h, n, Store, st, step)
    BY <1>1, <1>2, <1>9, <1>10, FoldSteps
<1> DEFINE f == [i \in 0 .. n |-> h[1 .. i]]
<1>12. /\ f[0] = st /\ \A i \in 0 .. n : f[i] \in Store
       /\ \A i \in 1 .. n : f[i] = Stores!Written(f[i - 1], <<ops[i]>>, Limit)
       /\ f[n] = h[1 .. n]
    <2>1. 0 \in 0 .. n /\ n \in 0 .. n /\ \A i \in 1 .. n : i \in 0 .. n /\ i - 1 \in 0 .. n
        BY <1>1
    <2>2. QED BY <1>3, <1>11, <2>1 DEF Grows
<1> HIDE DEF f
<1>13. QED BY <1>8, <1>12 DEF n

\* What a batch makes visible is what the mock makes of what was visible.
LEMMA BatchView ==
    ASSUME Stores!StoreAssumption, NEW st \in Store, NEW ops \in Seq(Op)
    PROVE  /\ Batch(st, ops) \in Store
           /\ Stores!View(st) \in Keyed
           /\ Stores!mock_written(Stores!View(st), ops) \in Keyed
           /\ Stores!View(Batch(st, ops)) = Stores!mock_written(Stores!View(st), ops)
<1> DEFINE n == Len(ops)
           map == Stores!View(st)
<1>1. map \in Keyed
    BY ViewIs
<1>2. n \in Nat /\ \A i \in 1 .. n : ops[i] \in Op
    OBVIOUS
<1>3. PICK f : /\ f[0] = st /\ \A i \in 0 .. n : f[i] \in Store
               /\ \A i \in 1 .. n : f[i] = Stores!Written(f[i - 1], <<ops[i]>>, Limit)
               /\ Batch(st, ops) = f[n]
    BY RocksSteps
<1> HIDE DEF map
<1>4. PICK g : /\ g[0] = map /\ \A i \in 0 .. n : g[i] \in Keyed
               /\ \A i \in 1 .. n : g[i] = Set(g[i - 1], ops[i])
               /\ Stores!mock_written(map, ops) = g[n]
    BY <1>1, MockSteps
<1> HIDE DEF n
<1> DEFINE W == {i \in Nat : i <= n /\ Stores!View(f[i]) # g[i]}
<1>5. W = {}
    <2>1. SUFFICES ASSUME W # {} PROVE FALSE
        OBVIOUS
    <2>2. PICK i \in W : \A j \in W : i <= j
        BY <2>1, LeastNatural
    <2>3. i \in Nat /\ i <= n /\ Stores!View(f[i]) # g[i] /\ i # 0
        BY <1>3, <1>4 DEF map
    <2>4. i \in 1 .. n /\ i - 1 \in Nat /\ i - 1 <= n /\ ~ (i <= i - 1) /\ i - 1 \in 0 .. n
        BY <1>2, <2>3
    <2>5. Stores!View(f[i - 1]) = g[i - 1]
        BY <2>2, <2>4
    <2>6. f[i - 1] \in Store /\ ops[i] \in Op
        BY <1>2, <1>3, <2>4
    <2>7. Stores!View(f[i]) = Set(Stores!View(f[i - 1]), ops[i])
        BY <1>3, <2>4, <2>6, OneWritten
    <2>8. QED BY <1>4, <2>3, <2>4, <2>5, <2>7
<1>6. n \in 0 .. n /\ n <= n
    BY <1>2
<1>7. Stores!View(f[n]) = g[n]
    BY <1>2, <1>5, <1>6
<1>8. QED BY <1>1, <1>3, <1>4, <1>6, <1>7 DEF map

\* The transactions.
Lists == UNION {[D -> Seq(Op)] : D \in SUBSET STRING}

\* What a call adds to one.
Call(tx, c) == IF c[3] = Deleted THEN Stores!delete(tx, c[1], c[2])
                                 ELSE Stores!put(tx, c[1], c[2], c[3])

\* The calls of put and delete on a DBTransaction are a fold.
BuiltFold(h, calls) ==
    h = [S \in SUBSET DOMAIN calls |->
            IF S = {} THEN Stores!new
            ELSE LET x == Stores!Max(S) IN Call(h[S \ {x}], calls[x])]

\* What they build is at the whole list of that fold.
LEMMA BuiltIs ==
    ASSUME NEW calls
    PROVE  Stores!Built(calls) = (CHOOSE h : BuiltFold(h, calls))[DOMAIN calls]
BY DEF Stores!Built, Stores!FoldLeft, Stores!MapThenFoldSet, BuiltFold, Call

\* A call appends an operation to the list of its database.
LEMMA CallAdds ==
    ASSUME NEW tx \in Lists, NEW c \in STRING \X StoreKeys \X (Nat \union {Deleted})
    PROVE  Call(tx, c) \in Lists
<1>1. c[1] \in STRING /\ c[2] \in StoreKeys /\ c[3] \in Nat \union {Deleted}
    OBVIOUS
<1> DEFINE op == [key |-> c[2], val |-> c[3]]
<1>2. op \in Op
    BY <1>1 DEF Op
<1>3. Call(tx, c) = Stores!insert(tx, c[1], op)
    BY DEF Call, Stores!delete, Stores!put
<1> HIDE DEF op
<1>4. PICK D \in SUBSET STRING : tx \in [D -> Seq(Op)]
    BY DEF Lists
<1> DEFINE E == D \union {c[1]}
           f == [m \in E |-> (IF m \in D THEN tx[m] ELSE <<>>) \o (IF m = c[1] THEN <<op>> ELSE <<>>)]
<1>5. Stores!insert(tx, c[1], op) = f
    BY <1>4 DEF Stores!insert
<1>6. \A m \in E : f[m] \in Seq(Op)
    <2>1. SUFFICES ASSUME NEW m \in E PROVE f[m] \in Seq(Op)
        OBVIOUS
    <2> DEFINE a == IF m \in D THEN tx[m] ELSE <<>>
               b == IF m = c[1] THEN <<op>> ELSE <<>>
    <2>2. a \in Seq(Op)
        <3>1. m \in D => tx[m] \in Seq(Op)
            BY <1>4
        <3>2. <<>> \in Seq(Op)
            OBVIOUS
        <3>3. QED BY <3>1, <3>2
    <2>3. b \in Seq(Op)
        <3>1. <<op>> \in Seq(Op) /\ <<>> \in Seq(Op)
            BY <1>2
        <3>2. QED BY <3>1
    <2>4. f[m] = a \o b
        OBVIOUS
    <2> HIDE DEF a, b, f
    <2>5. QED BY <2>2, <2>3, <2>4
<1>7. f \in [E -> Seq(Op)] /\ E \in SUBSET STRING
    BY <1>1, <1>6
<1> HIDE DEF E, f
<1>8. f \in Lists
    BY <1>7 DEF Lists
<1>9. QED BY <1>3, <1>5, <1>8

\* A transaction is a list of operations for each of some databases.
LEMMA BuiltLists ==
    ASSUME Stores!StoreAssumption, NEW calls \in Transactions
    PROVE  \A m \in DOMAIN Stores!Built(calls) : Stores!Built(calls)[m] \in Seq(Op)
<1> DEFINE n == Len(calls)
           step == [i \in 1 .. n |-> [tx \in Lists |-> Call(tx, calls[i])]]
           h == CHOOSE h : BuiltFold(h, calls)
<1>1. /\ n \in Nat /\ DOMAIN calls = 1 .. n
      /\ \A i \in 1 .. n : calls[i] \in STRING \X StoreKeys \X (Nat \union {Deleted})
    BY DEF Stores!StoreAssumption
<1> HIDE DEF n
<1>2. \A i \in 1 .. n : step[i] \in [Lists -> Lists]
    BY <1>1, CallAdds
<1>3. \A i \in 1 .. n, tx \in Lists : step[i][tx] = Call(tx, calls[i])
    OBVIOUS
<1> HIDE DEF step
<1>4. \A S \in SUBSET (1 .. n) : S # {} => Stores!Max(S) = Max(S) /\ Max(S) \in 1 .. n
    <2>1. SUFFICES ASSUME NEW S \in SUBSET (1 .. n), S # {} PROVE Max(S) \in 1 .. n
        BY GreatestAgree
    <2>2. S \subseteq 1 .. n
        OBVIOUS
    <2>3. Max(S) \in S
        BY <1>1, <2>1, <2>2, MaxIn
    <2>4. QED BY <2>2, <2>3
<1>5. Stores!new \in Lists
    <2>1. Stores!new \in [{} -> Seq(Op)]
        BY DEF Stores!new
    <2>2. {} \in SUBSET STRING
        OBVIOUS
    <2>3. QED BY <2>1, <2>2 DEF Lists
<1>6. PICK g : IsFold(g, n, Lists, Stores!new, step)
    BY <1>1, <1>2, <1>5, FoldExists
<1>7. BuiltFold(g, calls)
    <2>1. /\ g \in [SUBSET (1 .. n) -> Lists]
          /\ \A S \in SUBSET (1 .. n) :
                g[S] = IF S = {} THEN Stores!new ELSE step[Max(S)][g[S \ {Max(S)}]]
        BY <1>6 DEF IsFold
    <2>2. ASSUME NEW S \in SUBSET (1 .. n), S # {}
          PROVE  g[S] = Call(g[S \ {Stores!Max(S)}], calls[Stores!Max(S)])
        <3>1. S \ {Max(S)} \in SUBSET (1 .. n)
            OBVIOUS
        <3>2. g[S] = Call(g[S \ {Max(S)}], calls[Max(S)])
            BY <1>3, <1>4, <2>1, <2>2, <3>1
        <3>3. QED BY <1>4, <2>2, <3>2
    <2>3. g = [S \in SUBSET (1 .. n) |-> g[S]]
        BY <2>1
    <2>4. \A S \in SUBSET (1 .. n) : g[S] =
            IF S = {} THEN Stores!new
            ELSE Call(g[S \ {Stores!Max(S)}], calls[Stores!Max(S)])
        BY <2>1, <2>2
    <2>5. QED BY <1>1, <2>3, <2>4 DEF BuiltFold
<1>8. BuiltFold(h, calls)
    BY <1>7
<1>9. Stores!Built(calls) = h[1 .. n]
    BY <1>1, BuiltIs
<1> HIDE DEF h
<1>10. /\ h[{}] = Stores!new
       /\ \A S \in SUBSET (1 .. n) : S # {} => h[S] = Call(h[S \ {Max(S)}], calls[Max(S)])
    BY <1>1, <1>4, <1>8 DEF BuiltFold
<1>11. \A S \in SUBSET (1 .. n) : S # {} /\ h[S \ {Max(S)}] \in Lists =>
          h[S] = step[Max(S)][h[S \ {Max(S)}]]
    BY <1>3, <1>4, <1>10
<1>12. Grows(h, n, Lists, Stores!new, step)
    BY <1>1, <1>2, <1>5, <1>10, <1>11, FoldSteps
<1>13. Stores!Built(calls) \in Lists
    <2>1. n \in 0 .. n
        BY <1>1
    <2>2. QED BY <1>9, <1>12, <2>1 DEF Grows
<1>14. PICK D \in SUBSET STRING : Stores!Built(calls) \in [D -> Seq(Op)]
    BY <1>13 DEF Lists
<1>15. QED BY <1>14

-------------------------------------------------------------------------------
(* What the calls keep.                                                    *)

\* What was written last is what an open database shows and what the files of
\* the others have; before anything is reopened, all are open and the mock
\* has the same.
StoresInv ==
    /\ DOMAIN dbs \in SUBSET DbNames
    /\ kept \in [DbNames -> Keyed] /\ files \in [DbNames -> Keyed]
    /\ opens \in Nat
    /\ \A n \in DOMAIN dbs : dbs[n] \in Store /\ Stores!View(dbs[n]) = kept[n]
    /\ \A n \in DbNames \ DOMAIN dbs : files[n] = kept[n]
    /\ opens = 0 => DOMAIN dbs = DbNames /\ mock = kept

\* It holds of new repositories.
LEMMA StoresStart ==
    ASSUME Stores!StoreAssumption, Stores!Init PROVE StoresInv
<1>1. Stores!Nothing \in Keyed
    BY DEF Stores!Nothing, Keyed
<1>2. Stores!Opened(Stores!Nothing) \in Store /\ Stores!View(Stores!Opened(Stores!Nothing)) = Stores!Nothing
    BY <1>1, OpenedView
<1>3. /\ dbs = [n \in DbNames |-> Stores!Opened(Stores!Nothing)]
      /\ files = [n \in DbNames |-> Stores!Nothing]
      /\ mock = [n \in DbNames |-> Stores!Nothing]
      /\ kept = [n \in DbNames |-> Stores!Nothing]
      /\ opens = 0
    BY DEF Stores!Init
<1> DEFINE e == Stores!Nothing
           o == Stores!Opened(e)
<1>4. e \in Keyed /\ o \in Store /\ Stores!View(o) = e
    BY <1>1, <1>2
<1>5. /\ dbs = [n \in DbNames |-> o] /\ files = [n \in DbNames |-> e]
      /\ mock = [n \in DbNames |-> e] /\ kept = [n \in DbNames |-> e] /\ opens = 0
    BY <1>3
<1> HIDE DEF e, o
<1>6. QED BY <1>4, <1>5 DEF StoresInv

\* write_buffered: what the batch shows is what the mock makes of it.
LEMMA StoresWritten ==
    ASSUME Stores!StoreAssumption, StoresInv, NEW calls \in Transactions,
           Stores!write_buffered(Stores!Built(calls))
    PROVE  StoresInv'
<1> DEFINE tx == Stores!Built(calls)
<1>1. \A n \in DOMAIN tx : tx[n] \in Seq(Op)
    BY BuiltLists
<1> HIDE DEF tx
<1>2. /\ dbs' = [n \in DOMAIN dbs |-> IF n \in DOMAIN tx THEN Batch(dbs[n], tx[n]) ELSE dbs[n]]
      /\ mock' = [n \in DOMAIN mock |->
                    IF n \in DOMAIN tx THEN Stores!mock_written(mock[n], tx[n]) ELSE mock[n]]
      /\ kept' = [n \in DbNames |->
                    IF n \in DOMAIN tx \intersect DOMAIN dbs
                    THEN Stores!mock_written(kept[n], tx[n]) ELSE kept[n]]
      /\ files' = files /\ opens' = opens
    BY DEF Stores!write_buffered, Batch, tx
<1>3. /\ DOMAIN dbs \in SUBSET DbNames
      /\ kept \in [DbNames -> Keyed] /\ files \in [DbNames -> Keyed]
      /\ opens \in Nat
      /\ \A n \in DOMAIN dbs : dbs[n] \in Store /\ Stores!View(dbs[n]) = kept[n]
      /\ \A n \in DbNames \ DOMAIN dbs : files[n] = kept[n]
      /\ opens = 0 => DOMAIN dbs = DbNames /\ mock = kept
    BY DEF StoresInv
<1>4. \A n \in DOMAIN dbs \intersect DOMAIN tx :
          /\ Batch(dbs[n], tx[n]) \in Store
          /\ Stores!mock_written(kept[n], tx[n]) \in Keyed
          /\ Stores!View(Batch(dbs[n], tx[n])) = Stores!mock_written(kept[n], tx[n])
    <2>1. SUFFICES ASSUME NEW n \in DOMAIN dbs, n \in DOMAIN tx
                   PROVE  /\ Batch(dbs[n], tx[n]) \in Store
                          /\ Stores!mock_written(kept[n], tx[n]) \in Keyed
                          /\ Stores!View(Batch(dbs[n], tx[n])) = Stores!mock_written(kept[n], tx[n])
        OBVIOUS
    <2>2. dbs[n] \in Store /\ Stores!View(dbs[n]) = kept[n] /\ tx[n] \in Seq(Op)
        BY <1>1, <1>3, <2>1
    <2> DEFINE st == dbs[n]
               ops == tx[n]
    <2>3. st \in Store /\ ops \in Seq(Op)
        BY <2>2
    <2> HIDE DEF st, ops
    <2>4. /\ Batch(st, ops) \in Store
          /\ Stores!mock_written(Stores!View(st), ops) \in Keyed
          /\ Stores!View(Batch(st, ops)) = Stores!mock_written(Stores!View(st), ops)
        BY <2>3, BatchView
    <2>5. QED BY <2>2, <2>4 DEF st, ops
<1>5. kept' \in [DbNames -> Keyed]
    BY <1>2, <1>3, <1>4
<1>6. DOMAIN dbs' = DOMAIN dbs
    BY <1>2
<1>7. \A n \in DOMAIN dbs : dbs'[n] \in Store /\ Stores!View(dbs'[n]) = kept'[n]
    <2>1. SUFFICES ASSUME NEW n \in DOMAIN dbs
                   PROVE  dbs'[n] \in Store /\ Stores!View(dbs'[n]) = kept'[n]
        OBVIOUS
    <2>2. CASE n \in DOMAIN tx
        <3>1. dbs'[n] = Batch(dbs[n], tx[n]) /\ kept'[n] = Stores!mock_written(kept[n], tx[n])
            BY <1>2, <1>3, <2>2
        <3>2. QED BY <1>4, <2>2, <3>1
    <2>3. CASE n \notin DOMAIN tx
        <3>1. dbs'[n] = dbs[n] /\ kept'[n] = kept[n]
            BY <1>2, <1>3, <2>3
        <3>2. QED BY <1>3, <3>1
    <2>4. QED BY <2>2, <2>3
<1>8. \A n \in DbNames \ DOMAIN dbs' : files'[n] = kept'[n]
    BY <1>2, <1>3, <1>6
<1>9. opens' = 0 => DOMAIN dbs' = DbNames /\ mock' = kept'
    <2>1. SUFFICES ASSUME opens = 0 PROVE DOMAIN dbs' = DbNames /\ mock' = kept'
        BY <1>2
    <2>2. DOMAIN dbs = DbNames /\ mock = kept /\ DOMAIN mock = DbNames
        BY <1>3, <2>1
    <2>3. \A n \in DbNames : n \in DOMAIN tx \intersect DOMAIN dbs <=> n \in DOMAIN tx
        BY <2>2
    <2>4. kept' = [n \in DbNames |->
                    IF n \in DOMAIN tx THEN Stores!mock_written(kept[n], tx[n]) ELSE kept[n]]
        BY <1>2, <2>3
    <2>5. QED BY <1>2, <1>6, <2>2, <2>4
<1>10. QED BY <1>2, <1>3, <1>5, <1>6, <1>7, <1>8, <1>9 DEF StoresInv

\* flush shows what it showed.
LEMMA StoresFlush ==
    ASSUME Stores!StoreAssumption, StoresInv, Stores!flush PROVE StoresInv'
<1>1. /\ dbs' = [n \in DOMAIN dbs |-> Stores!Flushed(dbs[n])]
      /\ files' = files /\ mock' = mock /\ kept' = kept /\ opens' = opens
    BY DEF Stores!flush
<1>2. \A n \in DOMAIN dbs : dbs'[n] \in Store /\ Stores!View(dbs'[n]) = kept'[n]
    <2>1. \A st \in Store : Stores!Flushed(st) \in Store
                            /\ Stores!View(Stores!Flushed(st)) = Stores!View(st)
        BY FlushedKeeps
    <2>2. SUFFICES ASSUME NEW n \in DOMAIN dbs
                   PROVE  dbs'[n] \in Store /\ Stores!View(dbs'[n]) = kept'[n]
        OBVIOUS
    <2>3. dbs[n] \in Store /\ Stores!View(dbs[n]) = kept[n]
        BY DEF StoresInv
    <2>4. dbs'[n] = Stores!Flushed(dbs[n])
        BY <1>1
    <2>5. QED BY <1>1, <2>1, <2>3, <2>4
<1>3. DOMAIN dbs' = DOMAIN dbs
    BY <1>1
<1>4. QED BY <1>1, <1>2, <1>3 DEF StoresInv

\* open_all: what drop flushed is found again, now or once it opens.
LEMMA StoresOpen ==
    ASSUME Stores!StoreAssumption, StoresInv, NEW failing \in SUBSET DbNames,
           Stores!open_all(failing)
    PROVE  StoresInv'
<1>1. /\ opens' = opens + 1 /\ kept' = kept
      /\ files' = [n \in DbNames |-> IF n \in DOMAIN dbs THEN Stores!Dropped(dbs[n]) ELSE files[n]]
      /\ dbs' = [n \in DbNames \ failing |-> Stores!Opened(files'[n])]
    BY DEF Stores!open_all
<1>2. /\ DOMAIN dbs \in SUBSET DbNames
      /\ kept \in [DbNames -> Keyed] /\ files \in [DbNames -> Keyed]
      /\ opens \in Nat
      /\ \A n \in DOMAIN dbs : dbs[n] \in Store /\ Stores!View(dbs[n]) = kept[n]
      /\ \A n \in DbNames \ DOMAIN dbs : files[n] = kept[n]
    BY DEF StoresInv
<1>3. \A n \in DbNames : files'[n] = kept[n]
    <2>1. \A st \in Store : Stores!Dropped(st) = Stores!View(st)
        BY FlushedKeeps
    <2>2. SUFFICES ASSUME NEW n \in DbNames PROVE files'[n] = kept[n]
        OBVIOUS
    <2>3. CASE n \in DOMAIN dbs
        <3>1. files'[n] = Stores!Dropped(dbs[n])
            BY <1>1, <2>3
        <3>2. QED BY <1>2, <2>1, <2>3, <3>1
    <2>4. CASE n \notin DOMAIN dbs
        BY <1>1, <1>2, <2>4
    <2>5. QED BY <2>3, <2>4
<1>4. files' \in [DbNames -> Keyed]
    <2>1. files' = [n \in DbNames |-> files'[n]]
        BY <1>1
    <2>2. QED BY <1>2, <1>3, <2>1
<1>5. DOMAIN dbs' = DbNames \ failing
    BY <1>1
<1>6. \A n \in DOMAIN dbs' : dbs'[n] \in Store /\ Stores!View(dbs'[n]) = kept'[n]
    <2>1. \A disk \in Keyed : Stores!Opened(disk) \in Store
                              /\ Stores!View(Stores!Opened(disk)) = disk
        BY OpenedView
    <2>2. SUFFICES ASSUME NEW n \in DbNames \ failing
                   PROVE  dbs'[n] \in Store /\ Stores!View(dbs'[n]) = kept'[n]
        BY <1>5
    <2>3. dbs'[n] = Stores!Opened(kept[n]) /\ kept[n] \in Keyed
        BY <1>1, <1>2, <1>3
    <2>4. QED BY <1>1, <2>1, <2>3
<1>7. opens' \in Nat /\ opens' # 0
    BY <1>1, <1>2
<1>8. DOMAIN dbs' \in SUBSET DbNames /\ kept' \in [DbNames -> Keyed]
      /\ \A n \in DbNames \ DOMAIN dbs' : files'[n] = kept'[n]
    BY <1>1, <1>2, <1>3, <1>5
<1>9. QED BY <1>4, <1>6, <1>7, <1>8 DEF StoresInv

\* No call breaks it.
LEMMA StoresStep ==
    ASSUME Stores!StoreAssumption, StoresInv, [Stores!Next]_(Stores!store_vars)
    PROVE  StoresInv'
<1>1. CASE \E calls \in Transactions : Stores!write_buffered(Stores!Built(calls))
    BY <1>1, StoresWritten
<1>2. CASE Stores!flush
    BY <1>2, StoresFlush
<1>3. CASE \E failing \in SUBSET DbNames : Stores!open_all(failing)
    BY <1>3, StoresOpen
<1>4. CASE UNCHANGED Stores!store_vars
    <2>1. dbs' = dbs /\ files' = files /\ mock' = mock /\ kept' = kept /\ opens' = opens
        BY <1>4 DEF Stores!store_vars
    <2>2. QED BY <2>1 DEF StoresInv
<1>5. QED BY <1>1, <1>2, <1>3, <1>4 DEF Stores!Next

-------------------------------------------------------------------------------
(* What the reads answer.                                                  *)

\* get has what was written last.
LEMMA StoresRead ==
    ASSUME StoresInv PROVE Stores!ReadsWritten
<1>1. \A n \in DOMAIN dbs : Stores!View(dbs[n]) = kept[n]
    BY DEF StoresInv
<1>2. SUFFICES ASSUME NEW n \in DbNames, NEW k \in StoreKeys
               PROVE  Stores!get(Stores!Views, n, k) =
                          IF n \in DOMAIN dbs THEN kept[n][k] ELSE Stores!NotFound
    BY DEF Stores!ReadsWritten
<1>3. QED BY <1>1 DEF Stores!get, Stores!Views

\* What rocks_iter interleaves.
LEMMA InsertsAre ==
    ASSUME Stores!StoreAssumption, NEW st \in Store
    PROVE  /\ Stores!Inserts(st) \in SUBSET Pair /\ IsFiniteSet(Stores!Inserts(st))
           /\ Stores!Buffered(st) = {k \in StoreKeys : st.buf[k] # Unbuffered}
           /\ \A p \in Stores!Inserts(st) : p[1] \in Stores!Buffered(st)
           /\ \A k \in Stores!Buffered(st) : st.buf[k] # Deleted =>
                  <<k, st.buf[k]>> \in Stores!Inserts(st)
<1> DEFINE B == Stores!Buffered(st)
           L == {k \in B : st.buf[k] # Deleted}
           f == [k \in L |-> <<k, st.buf[k]>>]
           P == Stores!Inserts(st)
<1>1. /\ st.buf \in [StoreKeys -> Nat \union {Deleted, Unbuffered}] /\ DOMAIN st.disk = StoreKeys
      /\ StoreKeys \subseteq Bytes /\ IsFiniteSet(StoreKeys)
    BY CountsAgree DEF Stores!StoreAssumption, Store, Keyed, Bytes
<1>2. B = {k \in StoreKeys : st.buf[k] # Unbuffered}
    BY <1>1 DEF Stores!Buffered
<1>3. P = {<<k, st.buf[k]>> : k \in L}
    BY DEF Stores!Inserts
<1>4. \A k \in L : k \in B /\ k \in Bytes /\ st.buf[k] \in Nat
    BY <1>1, <1>2
<1>5. IsFiniteSet(L)
    <2>1. L \in SUBSET StoreKeys
        BY <1>2
    <2>2. QED BY <1>1, <2>1, FS_Subset
<1>6. \A k \in B : st.buf[k] # Deleted => k \in L
    OBVIOUS
<1> HIDE DEF B, L, P
<1>7. f \in Surjection(L, P)
    BY <1>3 DEF Surjection
<1>8. IsFiniteSet(P)
    BY <1>5, <1>7, FS_Surjection
<1>9. \A p \in P : \E k \in L : p = <<k, st.buf[k]>>
    BY <1>3
<1>10. \A p \in P : p \in Pair /\ p[1] \in B
    BY <1>4, <1>9 DEF Pair
<1>11. \A k \in B : st.buf[k] # Deleted => <<k, st.buf[k]>> \in P
    BY <1>3, <1>6
<1>12. QED BY <1>2, <1>8, <1>10, <1>11 DEF B, P

\* iter of one Rockskvdb.
LEMMA StoreIterates ==
    ASSUME Stores!StoreAssumption, NEW st \in Store,
           NEW all, all = Stores!rocks_iter(st),
           NEW live, live = Stores!Pairs(Stores!View(st))
    PROVE  /\ \A i, j \in DOMAIN all : i < j => ~ Stores!PairBelow(all[j], all[i])
           /\ live \subseteq Stores!ToSet(all)
           /\ \A i \in DOMAIN all : all[i] \in live \/ all[i][1] \in Stores!Buffered(st)
           /\ Stores!Buffered(st) = {} => /\ Len(all) = Cardinality(live)
                                          /\ all = Stores!InOrder(live)
                                          /\ Stores!View(st) = st.disk
<1> DEFINE L == Stores!Inserts(st)
           R == Stores!Pairs(st.disk)
           map == Stores!View(st)
           B == Stores!Buffered(st)
<1>1. /\ L \in SUBSET Pair /\ IsFiniteSet(L) /\ B = {k \in StoreKeys : st.buf[k] # Unbuffered}
      /\ \A p \in L : p[1] \in B
      /\ \A k \in B : st.buf[k] # Deleted => <<k, st.buf[k]>> \in L
    BY InsertsAre
<1>2. /\ st.disk \in Keyed /\ map \in Keyed
      /\ \A k \in StoreKeys : map[k] = IF st.buf[k] = Unbuffered THEN st.disk[k]
                                       ELSE IF st.buf[k] = Deleted THEN Vacant ELSE st.buf[k]
    BY ViewIs DEF Store
<1> DEFINE disk == st.disk
<1>3. disk \in Keyed /\ R = Stores!Pairs(disk)
    BY <1>2
<1> HIDE DEF disk, map, R, L, B
<1>4. /\ R \in SUBSET Pair /\ IsFiniteSet(R)
      /\ \A p \in R : p[1] \in StoreKeys /\ disk[p[1]] = p[2] /\ p[2] # Vacant
      /\ \A k \in StoreKeys : disk[k] # Vacant => <<k, disk[k]>> \in R
    BY <1>3, PairsAre
<1>5. /\ live \in SUBSET Pair
      /\ \A p \in live : p[1] \in StoreKeys /\ map[p[1]] = p[2] /\ p[2] # Vacant
      /\ \A k \in StoreKeys : map[k] # Vacant => <<k, map[k]>> \in live
    BY <1>2, PairsAre DEF map
<1>6. \A p \in live \union R : p = <<p[1], p[2]>>
    BY <1>4, <1>5 DEF Pair
<1>7. all = Stores!Interleaved(L, R)
    BY DEF Stores!rocks_iter, L, R
<1>8. /\ \A i, j \in DOMAIN all : i < j => ~ Stores!PairBelow(all[j], all[i])
      /\ \A i \in DOMAIN all : all[i] \in L \union R
      /\ \A p \in L \union R : \E i \in DOMAIN all : all[i] = p
      /\ L = {} => all = Stores!InOrder(R) /\ Len(all) = Cardinality(R)
    BY <1>1, <1>4, <1>7, InterleavedShows
<1>9. \A p \in live : p \in L \union R
    <2>1. SUFFICES ASSUME NEW p \in live PROVE p \in L \union R
        OBVIOUS
    <2>2. p[1] \in StoreKeys /\ map[p[1]] = p[2] /\ p[2] # Vacant /\ p = <<p[1], p[2]>>
        BY <1>5, <1>6
    <2>3. CASE st.buf[p[1]] = Unbuffered
        <3>1. disk[p[1]] = p[2]
            BY <1>2, <2>2, <2>3 DEF disk
        <3>2. QED BY <1>4, <2>2, <3>1
    <2>4. CASE st.buf[p[1]] # Unbuffered
        <3>1. p[1] \in B /\ st.buf[p[1]] = p[2] /\ st.buf[p[1]] # Deleted
            BY <1>1, <1>2, <2>2, <2>4
        <3>2. QED BY <1>1, <2>2, <3>1
    <2>5. QED BY <2>3, <2>4
<1>10. \A p \in L \union R : p \in live \/ p[1] \in B
    <2>1. SUFFICES ASSUME NEW p \in R, p[1] \notin B PROVE p \in live
        BY <1>1
    <2>2. p[1] \in StoreKeys /\ disk[p[1]] = p[2] /\ p[2] # Vacant /\ p = <<p[1], p[2]>>
        BY <1>4, <1>6
    <2>3. map[p[1]] = p[2]
        BY <1>1, <1>2, <2>1, <2>2 DEF disk
    <2>4. QED BY <1>5, <2>2, <2>3
<1>11. live \subseteq Stores!ToSet(all)
    BY <1>8, <1>9 DEF Stores!ToSet
<1>12. ASSUME B = {} PROVE map = disk /\ L = {} /\ live = R
    <2>1. L = {}
        BY <1>1, <1>12
    <2>2. \A k \in StoreKeys : map[k] = disk[k]
        BY <1>1, <1>2, <1>12 DEF disk
    <2>3. map = disk
        BY <1>2, <1>3, <2>2 DEF Keyed
    <2>4. QED BY <1>3, <2>1, <2>3 DEF map
<1>13. QED BY <1>8, <1>10, <1>11, <1>12 DEF B, map, disk

\* iter of the repository.
LEMMA StoresIterate ==
    ASSUME Stores!StoreAssumption, StoresInv PROVE Stores!IterShowsLive
<1>1. SUFFICES ASSUME NEW n \in DOMAIN dbs,
                      NEW all, all = Stores!iter([m \in DOMAIN dbs |-> Stores!rocks_iter(dbs[m])], n),
                      NEW live, live = Stores!Pairs(Stores!View(dbs[n]))
               PROVE  /\ \A i, j \in DOMAIN all : i < j => ~ Stores!PairBelow(all[j], all[i])
                      /\ live \subseteq Stores!ToSet(all)
                      /\ \A i \in DOMAIN all : all[i] \in live \/ all[i][1] \in Stores!Buffered(dbs[n])
                      /\ Stores!Buffered(dbs[n]) = {} => Len(all) = Stores!Cardinality(live)
    BY DEF Stores!IterShowsLive
<1>2. dbs[n] \in Store
    BY DEF StoresInv
<1>3. all = Stores!rocks_iter(dbs[n])
    BY <1>1 DEF Stores!iter
<1>4. Stores!Cardinality(live) = Cardinality(live)
    BY CountsAgree
<1>5. QED BY <1>1, <1>2, <1>3, <1>4, StoreIterates

\* The mock answers as the real one does, before anything is reopened.
LEMMA StoresStandIn ==
    ASSUME Stores!StoreAssumption, StoresInv PROVE Stores!MockStandsIn
<1> DEFINE RI == [m \in DOMAIN dbs |-> Stores!rocks_iter(dbs[m])]
           RP(p) == [m \in DOMAIN dbs |-> Stores!rocks_get_by_prefix(dbs[m], p)]
           RF(p) == [m \in DOMAIN dbs |-> Stores!rocks_iter_from_prefix(dbs[m], p)]
           MI == [m \in DOMAIN mock |-> Stores!mock_iter(mock[m])]
           MP(p) == [m \in DOMAIN mock |-> Stores!mock_get_by_prefix(mock[m], p)]
           MF(p) == [m \in DOMAIN mock |-> Stores!mock_iter_from_prefix(mock[m], p)]
           Shown(n) == {k \in StoreKeys : mock[n][k] # Vacant}
<1>1. SUFFICES ASSUME opens = 0, NEW n \in DbNames
               PROVE  /\ \A k \in StoreKeys : Stores!get(mock, n, k) = Stores!get(Stores!Views, n, k)
                      /\ Stores!Buffered(dbs[n]) = {} =>
                           /\ Stores!iter(MI, n) = Stores!iter(RI, n)
                           /\ \A p \in SearchPrefixes :
                                /\ (\A k \in Shown(n) : Len(k) >= Len(p)) =>
                                      Stores!get_by_prefix(MP(p), n) = Stores!get_by_prefix(RP(p), n)
                                /\ (\E k \in Shown(n) : Stores!IsPrefix(p, k)) =>
                                      Stores!iter_from_prefix(MF(p), n) =
                                          Stores!iter_from_prefix(RF(p), n)
    BY DEF Stores!MockStandsIn
<1>2. /\ DOMAIN dbs = DbNames /\ mock = kept /\ DOMAIN mock = DbNames
      /\ dbs[n] \in Store /\ Stores!View(dbs[n]) = mock[n] /\ mock[n] \in Keyed
    BY <1>1 DEF StoresInv
<1>3. \A k \in StoreKeys : Stores!get(mock, n, k) = Stores!get(Stores!Views, n, k)
    BY <1>2 DEF Stores!get, Stores!Views
<1> DEFINE st == dbs[n]
           map == mock[n]
           live == Stores!Pairs(Stores!View(st))
<1>4. ASSUME Stores!Buffered(st) = {}
      PROVE  Stores!rocks_iter(st) = Stores!mock_iter(map) /\ st.disk = map
    <2>1. st \in Store /\ Stores!View(st) = map
        BY <1>2
    <2>2. Stores!rocks_iter(st) = Stores!InOrder(live) /\ Stores!View(st) = st.disk
        BY <1>4, <2>1, StoreIterates
    <2>3. QED BY <2>1, <2>2 DEF Stores!mock_iter
<1>5. /\ Stores!iter(MI, n) = Stores!mock_iter(map) /\ Stores!iter(RI, n) = Stores!rocks_iter(st)
      /\ \A p : Stores!get_by_prefix(MP(p), n) = Stores!mock_get_by_prefix(map, p)
      /\ \A p : Stores!get_by_prefix(RP(p), n) = Stores!rocks_get_by_prefix(st, p)
      /\ \A p : Stores!iter_from_prefix(MF(p), n) = Stores!mock_iter_from_prefix(map, p)
      /\ \A p : Stores!iter_from_prefix(RF(p), n) = Stores!rocks_iter_from_prefix(st, p)
    BY <1>2 DEF Stores!iter, Stores!get_by_prefix, Stores!iter_from_prefix
<1>6. map \in Keyed /\ \A p \in SearchPrefixes : p \in Bytes
    BY <1>2 DEF Stores!StoreAssumption, Bytes
<1>7. \A k \in StoreKeys : k \in Shown(n) <=> map[k] # Vacant
    OBVIOUS
<1>8. \A k \in Shown(n) : k \in StoreKeys
    OBVIOUS
<1> HIDE DEF RI, RP, RF, MI, MP, MF, Shown, st, map
<1>9. ASSUME Stores!Buffered(st) = {}, NEW p \in SearchPrefixes
      PROVE  /\ (\A k \in Shown(n) : Len(k) >= Len(p)) =>
                    Stores!mock_get_by_prefix(map, p) = Stores!rocks_get_by_prefix(st, p)
             /\ (\E k \in Shown(n) : Stores!IsPrefix(p, k)) =>
                    Stores!mock_iter_from_prefix(map, p) = Stores!rocks_iter_from_prefix(st, p)
    <2>1. st.disk = map /\ p \in Bytes
        BY <1>4, <1>6, <1>9
    <2>2. /\ (\A k \in StoreKeys : map[k] # Vacant => Len(k) >= Len(p)) =>
                  Stores!mock_get_by_prefix(map, p) = Stores!rocks_get_by_prefix(st, p)
          /\ (\E k \in StoreKeys : map[k] # Vacant /\ Stores!IsPrefix(p, k)) =>
                  Stores!mock_iter_from_prefix(map, p) = Stores!rocks_iter_from_prefix(st, p)
        BY <1>6, <2>1, PrefixReads
    <2>3. QED BY <1>7, <1>8, <2>2
<1>10. QED BY <1>3, <1>4, <1>5, <1>9 DEF st

\* Whatever transactions are written, however long they are and wherever the
\* overlay overflows, and whichever databases fail to open: get has what was
\* written last, iter shows what get has in the order of the keys and, until a
\* flush, at most what the overlay hides besides, and MockDbRepository answers
\* as the real repository where a test may rely on it.
THEOREM RepositoriesAgree == Stores!Spec => []StoresAgree
<1>1. Stores!Init => StoresInv
    BY StoreAssumption, StoresStart
<1>2. StoresInv /\ [Stores!Next]_(Stores!store_vars) => StoresInv'
    BY StoreAssumption, StoresStep
<1>3. StoresInv => StoresAgree
    BY StoreAssumption, StoresRead, StoresIterate, StoresStandIn DEF StoresAgree
<1>4. QED BY <1>1, <1>2, <1>3, PTL DEF Stores!Spec
===============================================================================
