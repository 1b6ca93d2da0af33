------------------------------- MODULE TokenStream -------------------------------
(***************************************************************************)
(* What a streamed prompt promises, with no mention of batches: its tokens *)
(* come one at a time, the stream shows them in order, each once, possibly *)
(* late; when the prompt is done all of them have been shown, and once it  *)
(* has ended in any way nothing is added.                                  *)
(***************************************************************************)
EXTENDS SequencesExt

CONSTANTS Requests, Tokens

VARIABLES
  text,   \* the tokens that have come for each request
  shown,  \* those its stream has shown
  end     \* "open", "done" or "failed"

streamVars == <<text, shown, end>>

Init ==
  /\ text = [r \in Requests |-> <<>>]
  /\ shown = [r \in Requests |-> <<>>]
  /\ end = [r \in Requests |-> "open"]

\* What is shown of a text grows, and stays the beginning of it.
Shows(r, t) ==
  /\ shown' = [shown EXCEPT ![r] = shown'[r]]
  /\ IsPrefix(shown[r], shown'[r])
  /\ IsPrefix(shown'[r], t)

\* A token comes, and the stream may show it and others at once.
Receive(r) ==
  /\ end[r] = "open"
  /\ \E t \in Tokens :
       /\ text' = [text EXCEPT ![r] = Append(text[r], t)]
       /\ Shows(r, Append(text[r], t))
  /\ UNCHANGED end

\* The stream shows more of what has come.
Show(r) ==
  /\ end[r] = "open"
  /\ Shows(r, text[r])
  /\ UNCHANGED <<text, end>>

\* The prompt is done, and all of it has been shown.
Complete(r) ==
  /\ end[r] = "open"
  /\ end' = [end EXCEPT ![r] = "done"]
  /\ shown' = [shown EXCEPT ![r] = text[r]]
  /\ UNCHANGED text

\* The prompt fails or is cancelled; the rest is not shown.
Break(r) ==
  /\ end[r] = "open"
  /\ end' = [end EXCEPT ![r] = "failed"]
  /\ UNCHANGED <<text, shown>>

Next == \E r \in Requests : Receive(r) \/ Show(r) \/ Complete(r) \/ Break(r)

Spec == Init /\ [][Next]_streamVars
================================================================================
