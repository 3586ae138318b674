----------------------------- MODULE ServerLife -----------------------------
(***************************************************************************)
(* The life of a server process and of its tool calls (src/main.rs,        *)
(* call_tool in src/server.rs, src/server/tool_call.rs): from the start of *)
(* the STDIO service to the exit after EOF or a signal, with heavy work    *)
(* that may never return.                                                  *)
(*                                                                         *)
(* The pool of heavy jobs is the abstract one, WorkPool, which HeavyWork   *)
(* implements.  The STDIO service is rmcp's: it ends some time after EOF,  *)
(* and perhaps after it is cancelled.                                      *)
(***************************************************************************)
EXTENDS Integers, FiniteSets

CONSTANTS Calls, Running, Capacity

ASSUME PoolAssumption == Running \in Nat \ {0} /\ Capacity \in Nat /\ Running <= Capacity

VARIABLES
    phase,      \* starting, serving, stopping (5 s), grace (2 s), exited
    asked,      \* why the process is to stop: eof, signal
    service,    \* the STDIO service: open or ended
    trace,      \* of each call: none, running, or the outcome that its trace logs
    token,      \* calls whose request is cancelled
    published,  \* whether the status file of the process is there
    place, answer, gone, closed   \* the pool; a call has at most one job

life == <<phase, asked, service, trace, token, published>>
pool == <<place, answer, gone, closed>>
lifeVars == <<life, pool>>

Pool == INSTANCE WorkPool WITH Jobs <- Calls

LifeInit ==
    /\ phase = "starting" /\ asked = {} /\ service = "open"
    /\ trace = [c \in Calls |-> "none"] /\ token = {}
    /\ published = TRUE
    /\ Pool!Init

-----------------------------------------------------------------------------
(* external: the host closes stdin, or a signal arrives. *)
AskToStop(reason) ==
    /\ phase # "exited" /\ reason \notin asked
    /\ asked' = asked \cup {reason}
    /\ UNCHANGED <<phase, service, trace, token, published, pool>>

(* MavenMcpServer::shutdown: the pool first, then the status file. *)
ShutDown ==
    /\ Pool!Close
    /\ published' = FALSE

(* run: the service is initialized, or cannot be and is dropped with the   *)
(* server, which removes the status file too.                              *)
Serve ==
    /\ phase = "starting"
    /\ \/ phase' = "serving" /\ UNCHANGED <<service, published>>
       \/ phase' = "grace" /\ service' = "ended" /\ published' = FALSE
    /\ UNCHANGED <<asked, trace, token, pool>>

SignalWhileStarting ==
    /\ phase = "starting" /\ "signal" \in asked
    /\ ShutDown
    /\ phase' = "exited"
    /\ UNCHANGED <<asked, service, trace, token>>

(* external: rmcp ends the service. *)
ServiceEnds ==
    /\ phase \in {"serving", "stopping"} /\ service = "open"
    /\ "eof" \in asked \/ phase = "stopping"
    /\ service' = "ended"
    /\ UNCHANGED <<phase, asked, trace, token, published, pool>>

(* run: waiting comes to its end. *)
SessionOver ==
    /\ phase = "serving" /\ service = "ended"
    /\ ShutDown
    /\ phase' = "grace"
    /\ UNCHANGED <<asked, service, trace, token>>

SignalWhileServing ==
    /\ phase = "serving" /\ "signal" \in asked
    /\ ShutDown
    /\ token' = token \cup {c \in Calls : trace[c] = "running"}
    /\ phase' = "stopping"
    /\ UNCHANGED <<asked, service, trace>>

(* exit_after_signal, when the service has ended or five seconds are over. *)
ExitAfterSignal ==
    /\ phase = "stopping"
    /\ phase' = "exited"
    /\ UNCHANGED <<asked, service, trace, token, published, pool>>

Abandoned(c) == IF Pool!Inside \cap {c} # {} /\ answer[c] = "none" THEN Pool!Abandon(c)
                ELSE UNCHANGED pool

(* main, Runtime::shutdown_timeout: the futures of the calls are dropped,  *)
(* and with them their traces.                                             *)
DropCall(c) ==
    /\ phase = "grace" /\ trace[c] = "running"
    /\ trace' = [trace EXCEPT ![c] = "dropped"]
    /\ Abandoned(c)
    /\ UNCHANGED <<phase, asked, service, token, published>>

(* Mutant: the runtime is dropped, which waits for its blocking threads. *)
ExitWhenIdle ==
    /\ phase = "grace"
    /\ Pool!Working = {}
    /\ phase' = "exited"
    /\ UNCHANGED <<asked, service, trace, token, published, pool>>

(* ... until no thread works or BLOCKING_SHUTDOWN_GRACE is over. *)
ExitAfterGrace ==
    /\ phase = "grace"
    /\ phase' = "exited"
    /\ UNCHANGED <<asked, service, trace, token, published, pool>>

-----------------------------------------------------------------------------
Alive == phase # "exited"

(* call_tool: the trace starts. *)
StartCall(c) ==
    /\ phase = "serving" /\ service = "open" /\ trace[c] = "none"
    /\ trace' = [trace EXCEPT ![c] = "running"]
    /\ UNCHANGED <<phase, asked, service, token, published, pool>>

(* The client cancels its request. *)
CancelRequest(c) ==
    /\ phase = "serving" /\ service = "open" /\ trace[c] = "running" /\ c \notin token
    /\ token' = token \cup {c}
    /\ UNCHANGED <<phase, asked, service, trace, published, pool>>

Polled(c) == Alive /\ trace[c] = "running" /\ c \notin token

(* The tool gives heavy work to the pool, which answers it some time. *)
EnterPool(c) == Polled(c) /\ (Pool!Accept(c) \/ Pool!Refuse(c)) /\ UNCHANGED life
PoolAnswers(c) == Polled(c) /\ Pool!Answer(c) /\ UNCHANGED life

(* The pool's threads; nothing obliges them to end. *)
PoolWorks(c) == Alive /\ (Pool!Begin(c) \/ Pool!Leave(c) \/ Pool!End(c)) /\ UNCHANGED life

(* CallOutcome::of *)
Outcomes(c) ==
    CASE answer[c] = "Ok" -> {"success", "tool_error", "invalid_params", "internal_error"}
      [] answer[c] \in {"Overloaded", "Cancelled", "Failed"} -> {"internal_error"}
      [] OTHER -> {"success", "tool_error", "invalid_params", "unknown_tool", "internal_error", "error"}

(* The router's future is ready: the tool had no heavy work, or has what   *)
(* the pool answered.                                                      *)
FinishCall(c) ==
    /\ Polled(c)
    /\ place[c] = "outside" \/ answer[c] # "none"
    /\ \E outcome \in Outcomes(c) : trace' = [trace EXCEPT ![c] = outcome]
    /\ UNCHANGED <<phase, asked, service, token, published, pool>>

(* The select is biased: a cancelled request drops the router's future. *)
FinishCancelled(c) ==
    /\ Alive /\ trace[c] = "running" /\ c \in token
    /\ trace' = [trace EXCEPT ![c] = "cancelled"]
    /\ Abandoned(c)
    /\ UNCHANGED <<phase, asked, service, token, published>>

-----------------------------------------------------------------------------
LifeNext ==
    \/ \E reason \in {"eof", "signal"} : AskToStop(reason)
    \/ Serve \/ SignalWhileStarting
    \/ ServiceEnds \/ SessionOver \/ SignalWhileServing \/ ExitAfterSignal \/ ExitAfterGrace
    \/ \E c \in Calls :
         \/ StartCall(c) \/ CancelRequest(c) \/ FinishCall(c) \/ FinishCancelled(c) \/ DropCall(c)
         \/ EnterPool(c) \/ PoolAnswers(c) \/ PoolWorks(c)

(* The runtime polls what is woken and its timers fire; rmcp notices EOF.  *)
(* Work in the pool need not end.                                          *)
LifeFairness ==
    /\ WF_lifeVars(Serve /\ "eof" \in asked) /\ WF_lifeVars(SignalWhileStarting)
    /\ WF_lifeVars(ServiceEnds /\ phase = "serving")
    /\ WF_lifeVars(SessionOver) /\ WF_lifeVars(SignalWhileServing)
    /\ WF_lifeVars(ExitAfterSignal) /\ WF_lifeVars(ExitAfterGrace)
    /\ \A c \in Calls : WF_lifeVars(FinishCancelled(c))

-----------------------------------------------------------------------------
(* EOF and signals stop the process, and its status file is gone then; a   *)
(* cancelled request is answered.  Neither waits for heavy work, which may *)
(* be stuck in a system call (main, shutdown, call_tool).                  *)
NeverHangs ==
    /\ asked # {} ~> phase = "exited" /\ ~published
    /\ \A c \in Calls : c \in token ~> trace[c] # "running" \/ phase = "exited"
=============================================================================
