----------------------------- MODULE HandlerSend -----------------------------
(***************************************************************************)
(* TCPSessionHandler::Send under two threads.  The sdk calls Send from the *)
(* main thread only, but handler_in_gateway calls it from the thread that  *)
(* receives from the broker (mdcliapi2.cpp), without a lock.               *)
(*                                                                         *)
(* The steps of Send are its accesses to messages_to_be_sent_: the test    *)
(* for emptiness, the push_back (which reads the end of the vector and     *)
(* then writes it) and the posting of PackMessageList to the main thread.  *)
(* Where the accesses of the threads overlap, the vector keeps what was    *)
(* written last.                                                           *)
(***************************************************************************)
EXTENDS Integers, Sequences, FiniteSets

CONSTANTS
    Callers,     \* the threads that call Send; "main" is one of them
    MaxSends     \* bound: calls of Send by each thread

VARIABLES
    pc,        \* per thread: "idle", "empty?", "push", "write" or "post"
    wanna,     \* per thread: the local wanna_send
    end,       \* per thread: the vector as push_back read it
    calls,     \* per thread: messages given to Send
    outbox,    \* messages_to_be_sent_
    posted,    \* PackMessageList tasks queued in the main thread
    packed     \* messages handed to the session's thread

vars == <<pc, wanna, end, calls, outbox, posted, packed>>

Message(t) == <<t, calls[t]>>

\* Send is called; the main thread calls it between its tasks.
Call(t) ==
    /\ pc[t] = "idle"
    /\ calls[t] < MaxSends
    /\ calls' = [calls EXCEPT ![t] = @ + 1]
    /\ pc' = [pc EXCEPT ![t] = "empty?"]
    /\ UNCHANGED <<wanna, end, outbox, posted, packed>>

TestEmpty(t) ==
    /\ pc[t] = "empty?"
    /\ wanna' = [wanna EXCEPT ![t] = (outbox = <<>>)]
    /\ pc' = [pc EXCEPT ![t] = "push"]
    /\ UNCHANGED <<end, calls, outbox, posted, packed>>

PushRead(t) ==
    /\ pc[t] = "push"
    /\ end' = [end EXCEPT ![t] = outbox]
    /\ pc' = [pc EXCEPT ![t] = "write"]
    /\ UNCHANGED <<wanna, calls, outbox, posted, packed>>

PushWrite(t) ==
    /\ pc[t] = "write"
    /\ outbox' = Append(end[t], Message(t))
    /\ pc' = [pc EXCEPT ![t] = "post"]
    /\ UNCHANGED <<wanna, end, calls, posted, packed>>

Post(t) ==
    /\ pc[t] = "post"
    /\ posted' = IF wanna[t] THEN posted + 1 ELSE posted
    /\ pc' = [pc EXCEPT ![t] = "idle"]
    /\ UNCHANGED <<wanna, end, calls, outbox, packed>>

\* PackMessageList, a task of the main thread.
PackMessageList ==
    /\ pc["main"] = "idle"
    /\ posted > 0
    /\ posted' = posted - 1
    /\ packed' = packed \o outbox
    /\ outbox' = <<>>
    /\ UNCHANGED <<pc, wanna, end, calls>>

Init ==
    /\ pc = [t \in Callers |-> "idle"]
    /\ wanna = [t \in Callers |-> FALSE]
    /\ end = [t \in Callers |-> <<>>]
    /\ calls = [t \in Callers |-> 0]
    /\ outbox = <<>> /\ posted = 0 /\ packed = <<>>

SendStep(t) == TestEmpty(t) \/ PushRead(t) \/ PushWrite(t) \/ Post(t)

Next == PackMessageList \/ \E t \in Callers : Call(t) \/ SendStep(t)

\* A thread finishes its call of Send, and the main thread runs its tasks.
Spec ==
    /\ Init /\ [][Next]_vars
    /\ WF_vars(PackMessageList)
    /\ \A t \in Callers : WF_vars(SendStep(t))

-----------------------------------------------------------------------------
\* "sends message to remote endpoint, the content of message would be consumed":
\* every message given to Send is handed to the session's thread.
EverySendPacked ==
    \A t \in Callers, n \in 1 .. MaxSends :
        calls[t] = n ~> \E i \in DOMAIN packed : packed[i] = <<t, n>>

=============================================================================
