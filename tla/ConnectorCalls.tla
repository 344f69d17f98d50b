--------------------------- MODULE ConnectorCalls ---------------------------
(***************************************************************************)
(* The operations of a connector that stand alone.  Validate and Connect:  *)
(* the configuration is refused before the first request, or the           *)
(* credentials are tried on the upstream.  FetchDocument: the metadata and *)
(* the body of a document in one request or in two, while the document is  *)
(* edited upstream and the transfer may break off in the body.             *)
(***************************************************************************)
EXTENDS ConnectorPlans

CONSTANTS Setups,          \* the connectors' plans for Validate and Connect
          FetchPlans,      \* and for FetchDocument
          MaxVersion       \* bound on the edits of the document

Identity == {"tenant", "source"}

VARIABLES
  setup,      \* the connector's plan
  given,      \* the fields of the configuration that are filled in
  setupStage, \* "idle", "new", "connected", "invalid", "limited", "refused"
  probed      \* replies to the requests so far

setupVars == <<setup, given, setupStage, probed>>

Valid == Identity \subseteq given /\ \E need \in setup.needs : need \subseteq given

SetupIdle ==
  /\ setup = NoProbe({{}}) /\ given = {} /\ setupStage = "idle" /\ probed = <<>>

(* Every configuration in which at most one field of what the connector     *)
(* knows about is missing.                                                  *)
SetupInit ==
  /\ setup \in Setups
  /\ LET known == Identity \cup UNION setup.needs IN
     given \in {known} \cup {known \ {f} : f \in known} \cup {Identity \cup n : n \in setup.needs}
  /\ setupStage = "new" /\ probed = <<>>

ConnectInvalid ==
  /\ setupStage = "new" /\ ~Valid
  /\ setupStage' = "invalid"
  /\ UNCHANGED <<setup, given, probed>>

ConnectUnprobed ==
  /\ setupStage = "new" /\ Valid /\ setup.probes = 0
  /\ setupStage' = "connected"
  /\ UNCHANGED <<setup, given, probed>>

(* One probe; a refusal may leave another one to try.                       *)
ConnectProbe(r) ==
  LET outcome == Outcome(setup.reply, r) IN
  /\ setupStage = "new" /\ Valid /\ Len(probed) < setup.probes
  /\ probed' = Append(probed, r)
  /\ setupStage' =
       CASE outcome \in {"ok", "blank"}                         -> "connected"
         [] outcome = "limited"                                 -> "limited"
         [] r = "denied" /\ Len(probed) + 1 < setup.probes      -> "new"
         [] OTHER                                               -> "refused"
  /\ UNCHANGED <<setup, given>>

SetupNext ==
  \/ ConnectInvalid
  \/ ConnectUnprobed
  \/ \E r \in Replies : ConnectProbe(r)

-----------------------------------------------------------------------------
Transfers == Replies \cup {"torn"}   \* "torn": a 200 whose body breaks off

VARIABLES
  doc,        \* the connector's plan
  version,    \* the document's version upstream
  title,      \* the version the metadata was read at, 0 when it was not
  fetchStage, \* "idle", "metadata", "body", "returned", "limited", "refused"
  body        \* version and completeness of the body handed to the caller

fetchVars == <<doc, version, title, fetchStage, body>>

NoBody == [version |-> 0, whole |-> FALSE]

FetchIdle ==
  doc = NoFetch /\ version = 1 /\ title = 0 /\ fetchStage = "idle" /\ body = NoBody

FetchInit ==
  /\ doc \in FetchPlans
  /\ version = 1 /\ title = 0 /\ body = NoBody
  /\ fetchStage = IF doc.requests = 2 THEN "metadata" ELSE "body"

FetchRefused(r) ==
  /\ fetchStage' = IF Outcome(doc.reply, r) = "limited" THEN "limited" ELSE "refused"
  /\ UNCHANGED <<title, body>>

NotSupported ==
  /\ fetchStage = "body" /\ doc.requests = 0
  /\ fetchStage' = "refused"
  /\ UNCHANGED <<doc, version, title, body>>

(* The first of two requests: its body is decoded and must be whole.        *)
FetchMetadata(r) ==
  /\ fetchStage = "metadata"
  /\ IF r = "ok"
     THEN /\ title' = version /\ fetchStage' = "body" /\ UNCHANGED body
     ELSE FetchRefused(r)
  /\ UNCHANGED <<doc, version>>

\* Mutant: the error of the read is dropped by every connector.
FetchBodyUnchecked(r) ==
  /\ fetchStage = "body" /\ doc.requests > 0
  /\ IF r \in {"ok", "torn"}
     THEN /\ body' = [version |-> version, whole |-> r # "torn" \/ doc.body = "stream"]
          /\ title' = IF doc.requests = 2 THEN title ELSE version
          /\ fetchStage' = "returned"
     ELSE FetchRefused(r)
  /\ UNCHANGED <<doc, version>>

(* The request for the body.  One that is read here fails on a broken       *)
(* transfer unless the error is dropped; one that is handed on unread shows *)
(* the break to its reader.  What does not decode leaves the metadata       *)
(* blank unless the connector insists.                                      *)
FetchBody(r) ==
  /\ fetchStage = "body" /\ doc.requests > 0
  /\ IF \/ r = "ok"
        \/ r = "torn" /\ doc.body # "checked"
        \/ r \in {"garbled", "soft"} /\ (~doc.decode \/ doc.body = "stream")
     THEN /\ body' = [version |-> version, whole |-> r # "torn" \/ doc.body = "stream"]
          /\ title' = IF doc.requests = 2 THEN title
                      ELSE IF r = "ok" \/ doc.body = "stream" THEN version ELSE 0
          /\ fetchStage' = "returned"
     ELSE FetchRefused(r)
  /\ UNCHANGED <<doc, version>>

EditUpstream ==
  /\ fetchStage \in {"metadata", "body"} /\ version < MaxVersion
  /\ version' = version + 1
  /\ UNCHANGED <<doc, title, fetchStage, body>>

FetchNext ==
  \/ NotSupported
  \/ \E r \in Transfers : FetchMetadata(r) \/ FetchBody(r)
  \/ EditUpstream

-----------------------------------------------------------------------------
(* A connection stands for credentials that were complete and that the      *)
(* upstream accepted in its last reply (three connectors have nothing to    *)
(* ask), and an incomplete configuration never reaches the network.         *)
ConnectedMeansAccepted ==
  /\ setupStage = "connected" =>
       /\ Valid
       /\ setup.probes > 0 =>
            /\ probed # <<>>
            /\ probed[Len(probed)] \in {"ok", "soft", "garbled"}
  /\ probed # <<>> => Valid

(* What a fetch returns as a document: its metadata is never newer than its *)
(* body, is of the same version when one request brings both, and the body  *)
(* is whole unless the connector drops read errors.                         *)
FetchedConsistent ==
  fetchStage = "returned" =>
    /\ title <= body.version
    /\ doc.requests = 1 => title \in {0, body.version}
    /\ doc.body # "ignored" => body.whole

(* No call of a connector returns more than the upstream has answered.      *)
CallsBackedByReplies == ConnectedMeansAccepted /\ FetchedConsistent
=============================================================================
