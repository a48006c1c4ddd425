------------------------------- MODULE Exchange -------------------------------
(***************************************************************************)
(* What the broker promises to the gateways and the workers, without the   *)
(* objects it keeps: for each service a queue of requests and the workers  *)
(* that stand ready.                                                       *)
(*                                                                         *)
(* A request is handed to a ready worker at once, or it waits.  Nothing    *)
(* waits while somebody is ready, what waits is handed out in order, and   *)
(* only to a worker that offered the service and was heard of in time.     *)
(* All of it is lost when the broker breaks.  Module Broker implements     *)
(* this.                                                                   *)
(***************************************************************************)
EXTENDS Integers, Sequences

CONSTANTS
    Workers,
    Names,
    Requests,
    Offering   \* the <<worker, service name>> pairs sent in READY

VARIABLES
    serving,   \* FALSE after an undefined step or an escaped exception
    queue,     \* per service: the requests that wait, oldest first
    ready,     \* per service: the workers that wait for requests
    heard,     \* the workers heard of before their expiry
    given      \* the <<worker, request>> pairs the last step handed out

exchangeVars == <<serving, queue, ready, heard, given>>

Nothing ==
    /\ queue = [n \in Names |-> <<>>] /\ ready = [n \in Names |-> {}]
    /\ heard = {} /\ given = <<>>

Init == serving = TRUE /\ Nothing

-----------------------------------------------------------------------------
\* A request for n goes to a ready worker, which stays ready; the others that
\* were not heard of in time are forgotten.
Pass(n, m) ==
    /\ serving
    /\ \E w \in ready[n] \cap heard : given' = << <<w, m>> >>
    /\ ready' = [ready EXCEPT ![n] = @ \cap heard]
    /\ UNCHANGED <<serving, queue, heard>>

\* Nobody is ready.
Keep(n, m) ==
    /\ serving
    /\ ready[n] \cap heard = {}
    /\ queue' = [queue EXCEPT ![n] = Append(@, m)]
    /\ ready' = [ready EXCEPT ![n] = {}]
    /\ given' = <<>>
    /\ UNCHANGED <<serving, heard>>

\* A worker stands ready for n, and nothing waits.
Stand(w, n) ==
    /\ serving
    /\ <<w, n>> \in Offering
    /\ queue[n] = <<>>
    /\ heard' = heard \cup {w}
    /\ ready' = [ready EXCEPT ![n] = @ \cup {w}]
    /\ given' = <<>>
    /\ UNCHANGED <<serving, queue>>

\* It takes what waits: the oldest request and no more until it is heard of
\* again, or all of them.
Take(w, n) ==
    /\ serving
    /\ <<w, n>> \in Offering
    /\ queue[n] # <<>>
    /\ heard' = heard \cup {w}
    /\ \/ /\ given' = << <<w, Head(queue[n])>> >>
          /\ queue' = [queue EXCEPT ![n] = Tail(@)]
          /\ ready' = [ready EXCEPT ![n] = {}]
       \/ /\ given' = [i \in 1 .. Len(queue[n]) |-> <<w, queue[n][i]>>]
          /\ queue' = [queue EXCEPT ![n] = <<>>]
          /\ ready' = [ready EXCEPT ![n] = {w}]
    /\ UNCHANGED serving

\* A worker leaves a service, or is not heard of for too long.
Leave(w, n) ==
    /\ serving
    /\ ready' = [ready EXCEPT ![n] = @ \ {w}]
    /\ given' = <<>>
    /\ UNCHANGED <<serving, queue, heard>>
Fade(w) ==
    /\ serving
    /\ heard' = heard \ {w}
    /\ given' = <<>>
    /\ UNCHANGED <<serving, queue, ready>>

\* Anything else: requests, queues and workers stay as they are.
Idle ==
    /\ serving
    /\ given' = <<>>
    /\ UNCHANGED <<serving, queue, ready, heard>>

Break == serving' = FALSE /\ Nothing'
Start == serving' = TRUE /\ Nothing'

Next ==
    \/ \E n \in Names, m \in Requests : Pass(n, m) \/ Keep(n, m)
    \/ \E w \in Workers, n \in Names : Stand(w, n) \/ Take(w, n) \/ Leave(w, n)
    \/ \E w \in Workers : Fade(w)
    \/ Idle \/ Break \/ Start

Spec == Init /\ [][Next]_exchangeVars
=============================================================================
