---------------------------- MODULE DownloadInfo ----------------------------
(***************************************************************************)
(* What SFSClient::GetLatestDownloadInfo promises its caller, who does not *)
(* see that the answer takes several requests: the vector is replaced by a *)
(* content that was the latest one at some time during the call, or is     *)
(* left alone and an error is returned.  SFSClientImpl implements this.    *)
(***************************************************************************)
EXTENDS Naturals

CONSTANTS
  Products,    \* names of products
  NameSpace,   \* the namespace of the client
  MaxVersion,  \* bound: versions of a product
  Codes,       \* the Result codes of failures
  Nothing      \* no request, no content, no result

VARIABLES
  latest,    \* the service's latest version of each product
  calling,   \* the product asked for, Nothing when no call is running
  offered,   \* versions of it that were the latest one during the call
  contents,  \* what the caller's vector identifies, Nothing when it is empty
  result     \* the Result of the last call

vars == <<latest, calling, offered, contents, result>>

Init ==
  /\ latest = [product \in Products |-> 1]
  /\ calling = Nothing
  /\ offered = {}
  /\ contents = Nothing
  /\ result = Nothing

Publish(product) ==
  /\ latest[product] < MaxVersion
  /\ latest' = [latest EXCEPT ![product] = @ + 1]
  /\ offered' = IF calling = product THEN offered \cup {latest'[product]} ELSE offered
  /\ UNCHANGED <<calling, contents, result>>

Call(product) ==
  /\ calling = Nothing
  /\ calling' = product
  /\ offered' = {latest[product]}
  /\ UNCHANGED <<latest, contents, result>>

(* Parameters that are not one product with a name are refused at once. *)
Refuse ==
  /\ calling = Nothing
  /\ result' \in Codes
  /\ UNCHANGED <<latest, calling, offered, contents>>

Succeed ==
  /\ calling # Nothing
  /\ calling' = Nothing
  /\ offered' = {}
  /\ \E version \in offered :
       contents' = [nameSpace |-> NameSpace, name |-> calling, version |-> version]
  /\ result' = "Success"
  /\ UNCHANGED latest

Fail ==
  /\ calling # Nothing
  /\ calling' = Nothing
  /\ offered' = {}
  /\ result' \in Codes
  /\ UNCHANGED <<latest, contents>>

Next ==
  \/ \E product \in Products : Publish(product) \/ Call(product)
  \/ Refuse \/ Succeed \/ Fail

SafeSpec == Init /\ [][Next]_vars

Spec == SafeSpec /\ WF_vars(Succeed \/ Fail)

=============================================================================
