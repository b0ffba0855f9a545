----------------------------- MODULE AuditPackage -----------------------------
(***************************************************************************)
(* Exporting a decision: the bundle (export.py, bundle.py), the audit      *)
(* package around it (audit_export.py) and its verification                *)
(* (audit_package.py), as functions of a log, a clock and the arguments.   *)
(*                                                                         *)
(* A digest is represented by the value it is a digest of, so that two     *)
(* digests are equal when their contents are.  The decisions here have no  *)
(* template (module Templates has).                                        *)
(***************************************************************************)
EXTENDS DecisionInspect

CONSTANT Junk           \* a value that is none of those the code computes

None == {}              \* an optional field is a set of at most one value
Some(x) == {x}

-----------------------------------------------------------------------------
(***************************************************************************)
(* The bundle.                                                             *)
(***************************************************************************)
BundleDecision(d, l, t) ==
  [id |-> d, mode |-> IF Rows(l, {"DECISION_CREATED"}) = {} THEN "dry_run"
                      ELSE l[Last(Rows(l, {"DECISION_CREATED"}))].mode,
   status |-> StateOf(l, t)]

\* None without a run id: "no execution happened"
LinkDigest(d, run, request, result) ==
  IF run = None THEN None
  ELSE Some([id |-> d, run |-> run, request |-> request, result |-> result])

EmptyLink == [run |-> None, request |-> None, result |-> None, link |-> None]

\* The response of a completion stays in the record when a failure follows it.
Responses(l, r) == {s \in Outcomes(l, r) : l[s].type = "EXECUTION_COMPLETED"}

\* The link of the first execution, not of the latest, is a mutant.
FirstExec(l) == CHOOSE r \in Requests(l) : \A q \in Requests(l) : r <= q

FirstRouterLink(d, l) ==
  LET r       == FirstExec(l)
      run     == IF HasRun(l, r) THEN Some(RunOf(l, r)) ELSE None
      request == IF Starts(l, r) = {} THEN None ELSE Some([mode |-> l[r].mode])
      result  == IF Responses(l, r) = {} THEN None ELSE Some([run |-> l[Last(Responses(l, r))].run])
  IN  IF Requests(l) = {} THEN EmptyLink
      ELSE [run |-> run, request |-> request, result |-> result,
            link |-> LinkDigest(d, run, request, result)]

RouterLink(d, l) ==
  LET r       == LatestExec(l)
      run     == IF HasRun(l, r) THEN Some(RunOf(l, r)) ELSE None
      request == IF Starts(l, r) = {} THEN None ELSE Some([mode |-> l[Last(Starts(l, r))].mode])
      result  == IF Responses(l, r) = {} THEN None ELSE Some([run |-> l[Last(Responses(l, r))].run])
  IN  IF Requests(l) = {} THEN EmptyLink
      ELSE [run |-> run, request |-> request, result |-> result,
            link |-> LinkDigest(d, run, request, result)]

CanonicalPayload(b) == [decision |-> b.decision, events |-> b.events, link |-> b.link]

Export(d, l, t) ==
  LET payload == [decision |-> BundleDecision(d, l, t), events |-> l, link |-> RouterLink(d, l)]
  IN  [decision |-> payload.decision, events |-> payload.events, link |-> payload.link,
       digest |-> payload, provenance |-> [input |-> d, output |-> payload], meta |-> t]

-----------------------------------------------------------------------------
(***************************************************************************)
(* The package.  router is the bundle the caller hands over (external), if *)
(* any; given the digest it gives in its place.  None is a refusal.        *)
(***************************************************************************)
RouterBundle(digest, content) == [digest |-> Some(digest), content |-> content]

BindingPayload(binding) == [binding |-> binding]

Embedded(bundle, router, verify) ==
  IF verify /\ bundle.link.result # None /\ router.digest # bundle.link.result THEN None
  ELSE Some([mode |-> "embedded", bundle |-> router])

Reference(bundle, given) ==
  LET digest == IF given # None THEN given ELSE bundle.link.result
  IN  IF digest = None THEN None
      ELSE Some([mode |-> "reference", run |-> bundle.link.run, digest |-> digest])

SectionDigest(section) ==
  IF section.mode = "embedded" THEN section.bundle.digest ELSE section.digest

Package(bundle, section) ==
  LET binding == [control |-> bundle.digest, router |-> CHOOSE x \in SectionDigest(section) : TRUE,
                  link |-> bundle.link.link]
  IN  [bundle |-> bundle, router |-> section, binding |-> binding,
       digest |-> BindingPayload(binding), provenance |-> BindingPayload(binding)]

\* embed without a bundle to embed falls back to a reference
ExportAuditPackage(d, l, t, embed, router, given, verify) ==
  LET bundle   == Export(d, l, t)
      sections == IF embed /\ router # None
                  THEN UNION {Embedded(bundle, x, verify) : x \in router}
                  ELSE Reference(bundle, given)
  IN  IF bundle.link.run = None THEN None ELSE {Package(bundle, s) : s \in sections}

-----------------------------------------------------------------------------
(***************************************************************************)
(* verify_audit_package: six checks, each made whatever the others say.    *)
(* The embedded router bundle's digest is taken as it stands in it.        *)
(* VerifyOwnDigests is a mutant: it recomputes digests and compares no     *)
(* parts.                                                                  *)
(***************************************************************************)
Checks(p) ==
  [binding_digest        |-> BindingPayload(p.binding) = p.digest,
   control_bundle_digest |-> CanonicalPayload(p.bundle) = p.bundle.digest,
   binding_control_match |-> p.binding.control = p.bundle.digest,
   binding_router_match  |-> Some(p.binding.router) = SectionDigest(p.router),
   binding_link_match    |-> p.bundle.link.link # None /\ p.binding.link = p.bundle.link.link,
   router_digest         |-> p.router.mode = "embedded" => p.router.bundle.digest # None]

VerifyOwnDigests(p) == Checks(p).binding_digest /\ Checks(p).control_bundle_digest

Verified(p) == \A name \in DOMAIN Checks(p) : Checks(p)[name]

-----------------------------------------------------------------------------
(***************************************************************************)
(* One part of a package changed on its way: by its name, what is left of  *)
(* it.  The digest of an embedded router bundle is one of its parts.       *)
(***************************************************************************)
BoundParts == {"status", "event", "last event", "run", "request", "result", "link", "bundle digest",
               "bound control", "bound router", "bound link", "binding digest", "router digest",
               "no router digest"}

LosesLast(l) == [s \in {r \in DOMAIN l : r # Last(DOMAIN l)} |-> l[s]]

Corrupted(p, part) ==
  CASE part = "status"         -> [p EXCEPT !.bundle.decision.status = Junk]
    [] part = "event"          -> [p EXCEPT !.bundle.events[0] = Junk]
    [] part = "last event"     -> [p EXCEPT !.bundle.events = LosesLast(@)]
    [] part = "run"            -> [p EXCEPT !.bundle.link.run = {Junk}]
    [] part = "request"        -> [p EXCEPT !.bundle.link.request = {Junk}]
    [] part = "result"         -> [p EXCEPT !.bundle.link.result = {Junk}]
    [] part = "link"           -> [p EXCEPT !.bundle.link.link = {Junk}]
    [] part = "bundle digest"  -> [p EXCEPT !.bundle.digest = Junk]
    [] part = "bound control"  -> [p EXCEPT !.binding.control = Junk]
    [] part = "bound router"   -> [p EXCEPT !.binding.router = Junk]
    [] part = "bound link"     -> [p EXCEPT !.binding.link = {Junk}]
    [] part = "binding digest" -> [p EXCEPT !.digest = Junk]
    [] part = "router digest"  -> IF p.router.mode = "embedded" THEN [p EXCEPT !.router.bundle.digest = {Junk}]
                                  ELSE [p EXCEPT !.router.digest = {Junk}]
    [] part = "no router digest" -> IF p.router.mode = "embedded" THEN [p EXCEPT !.router.bundle.digest = None]
                                    ELSE [p EXCEPT !.router.digest = None]

-----------------------------------------------------------------------------
\* What a caller may hand over: the result's own bundle, and one that wraps it.
RouterBundles(l) ==
  {RouterBundle([run |-> run], run) : run \in DOMAIN runs} \cup {RouterBundle([wraps |-> 1], 1)}

PackagesOf(d, t) ==
  UNION {ExportAuditPackage(d, log[d], t, embed, router, given, verify) :
           embed \in BOOLEAN, router \in {None} \cup {Some(x) : x \in RouterBundles(log[d])},
           given \in {None, Some([wraps |-> 1])}, verify \in BOOLEAN}

(***************************************************************************)
(* Every package the exporter makes verifies, embedded or not, and none    *)
(* does any more once a single part of it that the binding covers has      *)
(* changed, or its bundle was replaced by an earlier export of the same    *)
(* decision (audit_package.py, verify_audit_package).                      *)
(***************************************************************************)
PackageTight ==
  \A d \in decisions : Alone /\ Loadable(log[d]) =>
    \A p \in PackagesOf(d, now) :
      /\ Verified(p)
      /\ \A part \in BoundParts : ~ Verified(Corrupted(p, part))
      /\ \A t \in 0 .. MaxTime : LET q == Export(d, LosesLast(log[d]), t) IN
           ~ Verified([p EXCEPT !.bundle = q])

(***************************************************************************)
(* "This decision authorized that run", as long as one client at a time    *)
(* uses the store: the run a package links to was made by the router for   *)
(* this very decision, in the mode that the linked request digest digests; *)
(* the linked result is that run's, and the router made no later run for   *)
(* the decision, recorded or not: a client that died during one left no    *)
(* package to be exported (bundle.py, compute_router_link_digest).         *)
(***************************************************************************)
LinkTrue ==
  \A d \in decisions : Alone /\ Loadable(log[d]) =>
    \A p \in ExportAuditPackage(d, log[d], now, FALSE, None, None, TRUE) :
      \A x \in p.binding.link :
        \A run \in x.run :
          /\ run \in DOMAIN runs
          /\ runs[run].dec = d
          /\ x.request = Some([mode |-> runs[run].mode])
          /\ x.result = Some([run |-> run])
          /\ \A other \in DOMAIN runs : runs[other].dec = d => other <= run

(***************************************************************************)
(* "The same decision always produces the same bundle with the same        *)
(* digest": true of every log that has seen an execution start, whatever   *)
(* the clock says at either export; before that, the status in the bundle  *)
(* is that of the clock (export.py, _build_bundle_decision).               *)
(***************************************************************************)
ExecutedExportStable ==
  \A d \in decisions : Loadable(log[d]) /\ Rows(log[d], {"EXECUTION_STARTED"}) # {} =>
    \A t, u \in 0 .. MaxTime : Export(d, log[d], t).digest = Export(d, log[d], u).digest
=============================================================================
