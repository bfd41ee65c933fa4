------------------------------- MODULE MCHttp -------------------------------
(***************************************************************************)
(* The timeouts are the client's own, in seconds.  Six addresses take      *)
(* longer than the deadline; the caps cut the longest answers short.       *)
(***************************************************************************)
EXTENDS Http

MCEndpoints == [tls : BOOLEAN, literal : BOOLEAN]
MCCalls == {[method |-> "GET", max_bytes |-> 7], [method |-> "GET", max_bytes |-> 20],
            [method |-> "POST", max_bytes |-> 4]}
NoLength == 99

MCResponses ==
  {[chunked |-> c, length |-> n, parts |-> p, whole |-> w] :
     c \in BOOLEAN, n \in {1, NoLength}, w \in BOOLEAN,
     p \in {<<>>, <<<<1, 2>>, <<3>>>>, <<<<1>>, <<2, 3>>, <<4>>>>}}
=============================================================================
