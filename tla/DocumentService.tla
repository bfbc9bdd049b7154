-------------------------- MODULE DocumentService ---------------------------
(***************************************************************************)
(* What a language server owes its client, with no word on how it works    *)
(* the answer out: the report on a document is a function of the text the  *)
(* document has now, and every notification is answered.                   *)
(***************************************************************************)
CONSTANTS
  URIs,
  Texts,
  None,
  Report(_)   \* the messages a text deserves, read on its own

VARIABLES
  documents,  \* uri -> text, for the open documents
  reports,    \* uri -> the messages last sent for it
  pending     \* the document whose answer is being worked out

vars == <<documents, reports, pending>>

Init ==
  /\ documents = <<>>
  /\ reports = [u \in URIs |-> <<>>]
  /\ pending = None

(* The client sends a text, or asks again about the one it sent.           *)
Receive(uri, text) ==
  /\ pending = None
  /\ documents' = [u \in DOMAIN documents \cup {uri} |-> IF u = uri THEN text ELSE documents[u]]
  /\ pending' = uri
  /\ UNCHANGED reports

Answer ==
  /\ pending # None
  /\ reports' = [reports EXCEPT ![pending] = Report(documents[pending])]
  /\ pending' = None
  /\ UNCHANGED documents

ReceiveAndAnswer(uri, text) ==
  /\ pending = None
  /\ documents' = [u \in DOMAIN documents \cup {uri} |-> IF u = uri THEN text ELSE documents[u]]
  /\ reports' = [reports EXCEPT ![uri] = Report(text)]
  /\ UNCHANGED pending

Close(uri) ==
  /\ pending = None
  /\ documents' = [u \in DOMAIN documents \ {uri} |-> documents[u]]
  /\ reports' = [reports EXCEPT ![uri] = <<>>]
  /\ UNCHANGED pending

Next ==
  \/ Answer
  \/ \E uri \in URIs :
       \/ Close(uri)
       \/ \E text \in Texts : Receive(uri, text) \/ ReceiveAndAnswer(uri, text)

Spec == Init /\ [][Next]_vars /\ WF_vars(Answer)

=============================================================================
