----------------------------- MODULE SerialDatabase -----------------------------
(***************************************************************************)
(* What a repository may assume of the database: a call takes effect at    *)
(* most once and as a whole, between its invocation and its answer, unless *)
(* its caller went away; what the answer says of the effect is true.       *)
(***************************************************************************)
EXTENDS Sequences

CONSTANT Callers

VARIABLES status,  \* of every call
          log      \* the calls that took effect, in order

serialVars == <<status, log>>

Answers == {"result", "shutting_down", "panicked"}

SerialInit == status = [c \in Callers |-> "idle"] /\ log = <<>>

Invoke(c) ==
    /\ status[c] = "idle"
    /\ status' = [status EXCEPT ![c] = "pending"]
    /\ UNCHANGED log

Apply(c) ==
    /\ status[c] \in {"pending", "abandoned"}
    /\ \A i \in DOMAIN log : log[i] # c
    /\ log' = Append(log, c)
    /\ UNCHANGED status

\* A result has its effect and a refusal has none; after a panic the caller
\* cannot know, but nothing happens any more.
Return(c, answer) ==
    /\ status[c] = "pending"
    /\ answer = "result" => \E i \in DOMAIN log : log[i] = c
    /\ answer = "shutting_down" => \A i \in DOMAIN log : log[i] # c
    /\ status' = [status EXCEPT ![c] = answer]
    /\ UNCHANGED log

\* The caller is dropped while it waits; the effect may still come.
Abandon(c) ==
    /\ status[c] = "pending"
    /\ status' = [status EXCEPT ![c] = "abandoned"]
    /\ UNCHANGED log

SerialNext ==
    \E c \in Callers :
       Invoke(c) \/ Apply(c) \/ Abandon(c) \/ \E answer \in Answers : Return(c, answer)

SerialSpec == SerialInit /\ [][SerialNext]_serialVars
=================================================================================
