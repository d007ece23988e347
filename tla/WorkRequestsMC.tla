--------------------------- MODULE WorkRequestsMC ---------------------------
(***************************************************************************)
(* Instances of WorkRequests for TLC: who calls what on one connection.    *)
(***************************************************************************)
EXTENDS WorkRequests

CONSTANTS t1, t2, p

OneThread == {t1}
TwoThreads == {t1, t2}
Either(verbs) == verbs \X BOOLEAN

\* One thread posts on the send queue, another on the receive queue.
QueuePerThread ==
  [t \in {t1, t2, p} |->
     CASE t = t1 -> Either({"send", "rw", "atomic", "noop", "wr"})
                      \cup {<<"unsignaled_noop", FALSE>>, <<"await_send", TRUE>>}
       [] t = t2 -> Either({"recv"}) \cup {<<"await_recv", TRUE>>}
       [] OTHER  -> {}]

\* The pattern of example/sr_latency.c on the server: a thread posts
\* receives, waiting for them or not, and the callback answers.  Requests
\* may fail, and misuse is refused.
Echo ==
  [t \in {t1, p} |->
     IF t = t1 THEN Either({"recv", "bad_recv"}) \cup {<<"await_recv", TRUE>>}
               ELSE {<<"send", FALSE>>} \cup Either({"unsignaled_noop"})]

\* Two threads issue blocking reads and writes on the same connection.
SharedQueue ==
  [t \in {t1, t2, p} |-> IF t = p THEN {} ELSE {<<"rw", TRUE>>}]

\* One thread in a blocking verb.
OneSync ==
  [t \in {t1, p} |-> IF t = t1 THEN {<<"rw", TRUE>>} ELSE {}]

TwoChains == {<<TRUE>>, <<FALSE, TRUE>>}
NoChains == {}
=============================================================================
