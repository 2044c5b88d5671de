----------------------------- MODULE MessageLog -----------------------------
(***************************************************************************)
(* What the public message sequencer promises to its callers, with all of  *)
(* its machinery left out: one totally ordered transcript per conversation *)
(* that only grows at its end, in which a client_message_id occurs at most *)
(* once, and answers that are never given before the message they name is  *)
(* in the transcript.  Sequencer implements this specification.            *)
(***************************************************************************)
EXTENDS Naturals, Sequences

CONSTANTS
    Requests,    \* one element per HTTP request ever sent
    Entries,     \* what can be committed: records with a field "key"
    Nothing,     \* stands for the entry of a request not made yet
    Refusals     \* the error codes a request may be answered with

VARIABLES
    transcript,  \* the committed entries, the n-th has conversation_seq n
    asked,       \* the entry each request has asked to commit
    answer       \* what each request was told: "none", a refusal or a position

mvars == <<transcript, asked, answer>>

NoAnswer == [code |-> "none", seq |-> 0]
Ok(n) == [code |-> "ok", seq |-> n]
Refused(c) == [code |-> c, seq |-> 0]

LogInit ==
    /\ transcript = <<>>
    /\ asked = [r \in Requests |-> Nothing]
    /\ answer = [r \in Requests |-> NoAnswer]

Ask(r, e) ==
    /\ asked[r] = Nothing
    /\ asked' = [asked EXCEPT ![r] = e]
    /\ UNCHANGED <<transcript, answer>>

\* A request that nobody has answered yet puts its entry at the end, unless
\* an entry with the same key is already there.
Commit(r) ==
    /\ answer[r] = NoAnswer
    /\ asked[r] # Nothing
    /\ \A i \in DOMAIN transcript : transcript[i].key # asked[r].key
    /\ transcript' = Append(transcript, asked[r])
    /\ UNCHANGED <<asked, answer>>

\* A success names the position of the very entry the request asked for.
Acknowledge(r) ==
    /\ answer[r] = NoAnswer
    /\ \E i \in DOMAIN transcript :
          /\ transcript[i] = asked[r]
          /\ answer' = [answer EXCEPT ![r] = Ok(i)]
    /\ UNCHANGED <<transcript, asked>>

Refuse(r) ==
    /\ answer[r] = NoAnswer
    /\ \E c \in Refusals : answer' = [answer EXCEPT ![r] = Refused(c)]
    /\ UNCHANGED <<transcript, asked>>

LogNext ==
    \E r \in Requests :
        \/ \E e \in Entries : Ask(r, e)
        \/ Commit(r)
        \/ Acknowledge(r)
        \/ Refuse(r)

LogSpec == LogInit /\ [][LogNext]_mvars
=============================================================================
