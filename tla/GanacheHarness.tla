--------------------------- MODULE GanacheHarness ---------------------------
(***************************************************************************)
(* The harness of the Ganache test scripts (GasEvalEnclaveRevoker.py,      *)
(* GasEvalKeyRevoker.py, GanacheContractTests.py): main starts a           *)
(* ganache-cli child process, RunTests polls the node until it is          *)
(* connected and makes its calls, and the finally block of main stops the  *)
(* child with StopGanache: terminate(), then SIGINT and wait(timeout=2)    *)
(* until 20 s have passed, then kill().                                    *)
(*                                                                         *)
(* Time is a clock of whole seconds.  What Ganache does is fixed when it   *)
(* is started (when it listens, whether it dies while booting) or when it  *)
(* gets a signal (how long it takes to exit, or that it ignores it); its   *)
(* state at a time is derived from those choices.                          *)
(***************************************************************************)
EXTENDS Naturals

CONSTANTS
    TestSteps,      \* node calls of RunTests, each of which may raise
    BootTimes,      \* seconds Ganache may take before it listens
    StartupFails,   \* may Ganache exit while booting (port taken, bad flag)
    ExitDelays,     \* seconds Ganache may take to exit after TERM or INT
    ClockCap        \* the clock stops counting here

\* Ganache ignores the signal.
Ignores == ClockCap + 1
\* It has not been signalled, or ignored every signal.
NoExit == ClockCap + 1

ASSUME /\ TestSteps \in Nat /\ ClockCap \in Nat
       /\ BootTimes \subseteq 1..ClockCap /\ ExitDelays \subseteq 0..ClockCap
       /\ StartupFails \in BOOLEAN

VARIABLES
    now,        \* time.time(), in seconds
    pc,         \* where main is
    step,       \* node calls RunTests has made
    results,    \* the gas cost file: "old", or "new" once this run wrote it
    upAt,       \* when Ganache starts to listen (or dies, if it crashes)
    crashes,    \* there is no Ganache from upAt on: it died booting, or never ran
    exitAt,     \* when Ganache exits after the signals it honoured
    killed,     \* kill() was sent
    waitEnd     \* StopGanache's deadline

vars == <<now, pc, step, results, upAt, crashes, exitAt, killed, waitEnd>>

\* The clock advanced by d seconds; past ClockCap it stays there.
Later(t, d) == IF t + d >= ClockCap THEN ClockCap ELSE t + d

\* Ganache's process has not exited at time t.
Alive(t) ==
    /\ ~killed
    /\ ~(crashes /\ t >= upAt)
    /\ t < exitAt

\* w3.is_connected() at time t.
Listening(t) == Alive(t) /\ t >= upAt

\* Ganache's reaction to a SIGTERM or SIGINT sent at time t: it exits
\* d seconds later, or ignores it; an earlier exit still stands.
Signal(t, d) ==
    exitAt' = IF d = Ignores \/ exitAt <= t + d THEN exitAt ELSE t + d

Init ==
    /\ now = 0
    /\ pc = "start"
    /\ step = 0
    /\ results = "old"
    /\ upAt = 0
    /\ crashes = TRUE
    /\ exitAt = NoExit
    /\ killed = FALSE
    /\ waitEnd = 0

\* StartGanache: subprocess.Popen of ganache-cli.  Popen raises when the
\* binary is missing; main then ends before its try block.
StartGanache ==
    /\ pc = "start"
    /\ \/ \E b \in BootTimes, c \in IF StartupFails THEN BOOLEAN ELSE {FALSE} :
              /\ upAt' = now + b
              /\ crashes' = c
              /\ pc' = "connect"
       \/ pc' = "done" /\ UNCHANGED <<upAt, crashes>>
    /\ UNCHANGED <<now, step, results, exitAt, killed, waitEnd>>

\* RunTests: while not w3.is_connected(): time.sleep(1).
Connect ==
    /\ pc = "connect"
    /\ IF Listening(now)
       THEN pc' = "tests" /\ UNCHANGED now
       ELSE now' = Later(now, 1) /\ UNCHANGED pc
    /\ UNCHANGED <<step, results, upAt, crashes, exitAt, killed, waitEnd>>

\* Mutant: the last call is taken for the one before it.
TestStepPastEnd ==
    /\ pc = "tests"
    /\ \/ /\ Listening(now)
          /\ step' = step + 1
          /\ IF step = TestSteps
             THEN pc' = "stop" /\ results' = "new"
             ELSE UNCHANGED <<pc, results>>
       \/ pc' = "stop" /\ UNCHANGED <<step, results>>
    /\ UNCHANGED <<now, upAt, crashes, exitAt, killed, waitEnd>>

\* One node call of RunTests.  It raises when Ganache is gone, and may raise
\* anyway (a revert, a failed assert); the exception goes to main's finally.
\* After the last call the gas costs are json.dump'ed to the results file.
TestStep ==
    /\ pc = "tests"
    /\ \/ /\ Listening(now)
          /\ step' = step + 1
          /\ IF step + 1 = TestSteps
             THEN pc' = "stop" /\ results' = "new"
             ELSE UNCHANGED <<pc, results>>
       \/ pc' = "stop" /\ UNCHANGED <<step, results>>
    /\ UNCHANGED <<now, upAt, crashes, exitAt, killed, waitEnd>>

\* StopGanache: waitEnd = time.time() + 20; ganacheProc.terminate().
StopGanache ==
    /\ pc = "stop"
    /\ waitEnd' = now + 20
    /\ \E d \in ExitDelays \cup {Ignores} : Signal(now, d)
    /\ pc' = "poll"
    /\ UNCHANGED <<now, step, results, upAt, crashes, killed>>

\* The time at which Ganache exits, given the signals sent so far.
ExitTime == IF killed' THEN now ELSE exitAt'

\* Mutant: the deadline is taken afresh on every iteration.
StopLoopDeadlineReset ==
    /\ pc = "poll"
    /\ IF ~Alive(now)
       THEN pc' = "done" /\ UNCHANGED <<now, exitAt, killed, waitEnd>>
       ELSE /\ waitEnd' = now + 20
            /\ \E d \in ExitDelays \cup {Ignores} : Signal(now, d)
            /\ UNCHANGED killed
            /\ now' = IF ExitTime <= now + 2 THEN Later(now, ExitTime - now) ELSE Later(now, 2)
            /\ UNCHANGED pc
    /\ UNCHANGED <<step, results, upAt, crashes>>

\* Mutant: past the deadline the loop gives up instead of killing.
StopLoopGiveUp ==
    /\ pc = "poll"
    /\ IF ~Alive(now) \/ now > waitEnd
       THEN pc' = "done" /\ UNCHANGED <<now, exitAt, killed, waitEnd>>
       ELSE /\ \E d \in ExitDelays \cup {Ignores} : Signal(now, d)
            /\ UNCHANGED killed
            /\ now' = IF ExitTime <= now + 2 THEN Later(now, ExitTime - now) ELSE Later(now, 2)
            /\ UNCHANGED <<pc, waitEnd>>
    /\ UNCHANGED <<step, results, upAt, crashes>>

\* One iteration of while ganacheProc.poll() is None: past the deadline
\* kill(), else send SIGINT; then wait(timeout=2), which returns once the
\* process exits or raises TimeoutExpired after 2 s.
StopLoop ==
    /\ pc = "poll"
    /\ IF ~Alive(now)
       THEN pc' = "done" /\ UNCHANGED <<now, exitAt, killed, waitEnd>>
       ELSE /\ IF now > waitEnd
               THEN killed' = TRUE /\ UNCHANGED exitAt
               ELSE /\ \E d \in ExitDelays \cup {Ignores} : Signal(now, d)
                    /\ UNCHANGED killed
            /\ now' = IF ExitTime <= now + 2 THEN Later(now, ExitTime - now) ELSE Later(now, 2)
            /\ UNCHANGED <<pc, waitEnd>>
    /\ UNCHANGED <<step, results, upAt, crashes>>

\* main has returned; nothing is left to do.
Done == pc = "done" /\ UNCHANGED vars

Next == StartGanache \/ Connect \/ TestStep \/ StopGanache \/ StopLoop \/ Done

\* main is one thread that always runs on.
Spec == Init /\ [][Next]_vars /\ WF_vars(Next)

-----------------------------------------------------------------------------
(* Properties *)

TypeOK ==
    /\ now \in 0..ClockCap
    /\ pc \in {"start", "connect", "tests", "stop", "poll", "done"}
    /\ step \in 0..TestSteps
    /\ results \in {"old", "new"}
    /\ crashes \in BOOLEAN /\ killed \in BOOLEAN
    /\ exitAt \in Nat /\ upAt \in Nat /\ waitEnd \in Nat

\* When StopGanache returns, Ganache has exited, and it returned no more
\* than 22 s after it was called (20 s of SIGINT and wait(2), one last wait,
\* then kill), whether Ganache honours the signals or not.
StopLeavesNoGanache ==
    (pc = "done" /\ waitEnd # 0) => (~Alive(now) /\ now <= waitEnd + 2)

\* main returns, and leaves no Ganache process behind.
ScriptTerminates == <>(pc = "done" /\ ~Alive(now))

=============================================================================
