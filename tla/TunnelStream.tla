----------------------------- MODULE TunnelStream -----------------------------
(* What a tunnel promises its user, whoever carries it: the receiver gets the  *)
(* chunks of a stream in the order they were sent, each once, up to some       *)
(* point.  The stream is finished only when it got all of them; cut off it may *)
(* be at any time.  After either nothing more arrives.                         *)
EXTENDS Naturals, Sequences

CONSTANT Streams

VARIABLES
    sent,           \* chunks handed over by the sender
    received,       \* numbers of the chunks that arrived, in order of arrival
    end             \* open, finished or cut

streamVars == <<sent, received, end>>

StreamInit ==
    /\ sent = [s \in Streams |-> 0]
    /\ received = [s \in Streams |-> <<>>]
    /\ end = [s \in Streams |-> "open"]

Keeps(s, f, g) == f[s] = g[s]

Send(s) ==
    /\ sent'[s] = sent[s] + 1
    /\ Keeps(s, received', received) /\ Keeps(s, end', end)

Receive(s) ==
    /\ end[s] = "open" /\ Len(received[s]) < sent[s]
    /\ received'[s] = Append(received[s], Len(received[s]) + 1)
    /\ Keeps(s, sent', sent) /\ Keeps(s, end', end)

FinishStream(s) ==
    /\ end[s] = "open" /\ Len(received[s]) = sent[s]
    /\ end'[s] = "finished"
    /\ Keeps(s, sent', sent) /\ Keeps(s, received', received)

Cut(s) ==
    /\ end[s] = "open"
    /\ end'[s] = "cut"
    /\ Keeps(s, sent', sent) /\ Keeps(s, received', received)

Rest(s) == Keeps(s, sent', sent) /\ Keeps(s, received', received) /\ Keeps(s, end', end)

\* One step may end many streams.
StreamNext == \A s \in Streams : Send(s) \/ Receive(s) \/ FinishStream(s) \/ Cut(s) \/ Rest(s)

StreamSpec == StreamInit /\ [][StreamNext]_streamVars
===============================================================================
