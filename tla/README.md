# A TLA+ model of the Cloudflare Zero Trust operator

The operator reconciles four Kubernetes kinds into Cloudflare: a
`CloudflareTunnel` (the tunnel, its `cloudflared` DaemonSet and its one ingress
document), a `CloudflareExposure` (a hostname: the CNAME, the Access
application, a rule of the document; optionally one site of a failover group),
a `CloudflareAccessPolicy` and a `CloudflareTunnelRoute`. Nothing is transactional: a pass is a series
of Kubernetes and Cloudflare calls, any of which may be the last one before a
crash, and the only memory between passes is the status of the object. This
directory models those passes call by call, checks them with TLC on small
instances and proves the main safety properties with TLAPS.

## 1. Inventory

| Part | Source | State it keeps | Operations |
|---|---|---|---|
| Lease rules | `internal/dr/{role,lease,resolve,jitter}.go` | none (pure) | `Decide`, `Expired`, `Serialize`/`Parse`, `Resolve`, requeue times |
| Failover gate and finalizer | `internal/controller/exposure_failover.go`, `cloudflareexposure_controller.go` | `status.failover` (role, last token); at Cloudflare the lease TXT record(s), shared by all sites | list, resolve duplicates, create/update, read back, stand by, hold, finalizer's lease clean-up |
| Exposure controller | `cloudflareexposure_controller.go` | `status.cloudflare` (record id, applications, route hash), conditions; at Cloudflare the CNAME, the Access applications and their tags | default the origin, refuse conflicts, Access (validate, match, create, update, prune), DNS, save, finalizer |
| Tunnel controller | `cloudflaretunnel_controller.go` | `status` (tunnel id, document hash, routes), Secret, DaemonSet; at Cloudflare the tunnel and its document | find/recover/create, token, DaemonSet, document, readiness, finalizer |
| Document builder | `internal/tunnelconfig/builder.go` | none (pure) | conflicts, rules and their order, hash |
| Ownership marks | `internal/ownership/*.go` | comment of a DNS record, tags of an application | format, parse, compare |
| Access policy controller | `cloudflareaccesspolicy_controller.go` | `status` (policy id, hash) | recover by name, create, update, finalizer blocked by references |
| Tunnel route controller | `cloudflaretunnelroute_controller.go` | `status` (route id); at Cloudflare the private-network route | find or recover, preflight, edit, create, finalizer |
| Cloudflare client | `internal/cloudflare/{client,real}.go` | none | one call each, retried on 429 and 5xx |
| Workload and origin helpers | `internal/workload`, `internal/origin` | none | render the Secret and the DaemonSet, choose a default port |
| Shared controller code | `base.go`, `conditions.go`, `indexes.go`, `mapper.go` | conditions | status writes, indexed lists, watches |
| Not logic | `fake.go`, `credentials.go`, `failover_metrics.go`, `cmd/main.go`, `api/v1alpha1` | | test double, Secret lookup, output, wiring, declarations |

How they interact:

- The controllers run in one process, one worker each, and never call each
  other. They share Kubernetes objects: the Exposure pass reads the tunnel's
  `status.tunnelId` and `status.routes`; the tunnel pass lists the Exposures
  that refer to it; both finalizers look at the other kind.
- The operators of different clusters (sites) share only Cloudflare: the lease
  records at the lease name, the CNAME and the Access application of the
  hostname. There is no compare-and-swap there: records are updated and deleted
  by id, and a TXT name may hold several records.
- Users create, edit and delete objects, set the force-promote annotation, and
  may edit anything in the Cloudflare dashboard.

What is hard, and what would make each part right:

- **Failover.** Sites interleave at every call, with clocks of their own. Nobody
  may own two records, or be promoted under `Manual` without a token, and no token
  may be lost; after any crash, expiry or deletion exactly one site must end up
  serving, or an alert be raised. A second Exposure of the group in one cluster
  shares the site's id and so its lease.
- **Exposure and tunnel.** Every pass may die between an effect at Cloudflare
  and the status write that remembers it. The surface must converge all the
  same, Access must come before DNS, foreign records must be left alone, and
  nothing may be left behind by a finalizer.
- **Tunnel workload.** Id, Secret, DaemonSet and pods change one after the
  other; Ready must not be reported while Secret or DaemonSet are old, and the tunnel must not be
  deleted under running pods.
- **Access policies.** The policy is found again by name after a crash, compared
  by hash and by content, and handed to the Exposures through its status. It must
  not be created twice, Ready must mean that it is in place, and edits, drift and
  losses must reach the applications.
- **Access applications.** A pass lists the applications once and then works from
  that list, entry by entry, while its own writes outdate it. Each entry must end
  up with exactly one application, whatever is renamed, moved or merged in the
  spec, and nobody else's application may be touched.
- **Tunnel routes.** The controller reads objects from a cache that lags behind its
  own writes, and its status writes may conflict: a route must not be created
  twice in one place, nor somebody else's adopted, nor the tunnel go first.
- **Wildcards.** Hostnames may overlap. Of the rules that match a request cloudflared
  takes the first, which must be the most specific one; of two overlapping Exposures
  with Access neither may get its applications beside the other's.
- **Deletion.** An Exposure's finalizer needs the tunnel's credentials and the
  tunnel's finalizer waits for the Exposures and the routes: all must complete.

`PROJECT.json` lists these hazards at the lines where they bite, with the
properties that would catch them.

## 2. Modules

| Module | What it is |
|---|---|
| `LeaseRules` | the pure rules of the lease: `Expired`, `Serialize`, `Decide`, `Winner`, `Resolve` |
| `Failover` | `EXTENDS LeaseRules`: the passes of any number of sites over one shared surface |
| `MCFailover` | clocks with and without skew for TLC |
| `FailoverProofs` | theorems about `Failover` |
| `TunnelLife` | abstract: the life of a tunnel and its id, as the route controller may rely on it |
| `Owned` | abstract: what a controller promises of a resource at Cloudflare that stands for one object |
| `Tunnel` | the tunnel controller against Exposures and routes that do anything their kinds allow (`ExposureChange`, `RouteChange`) |
| `MCTunnel` | instances of `Tunnel` |
| `TunnelProofs` | theorems about `Tunnel`; it implements `TunnelLife` |
| `TunnelRoute` | `EXTENDS TunnelLife`: the route controller, with a lagging cache, composed with the tunnel's life |
| `MCTunnelRoute` | instances of `TunnelRoute` |
| `TunnelRouteProofs` | theorems about `TunnelRoute`; it implements `Owned` |
| `Ingress` | `EXTENDS Tunnel`: the Exposure controller composed with the tunnel controller |
| `MCIngress` | instances of `Ingress` |
| `IngressProofs` | `Ingress` implements `TunnelSpec`; theorems about its writes |
| `IngressCleanProofs` | without faults, Exposures leave nothing behind |
| `AccessApps` | the Access applications of one Exposure: several entries, matching, pruning, tags |
| `MCAccessApps` | instances of `AccessApps` |
| `AccessAppsProofs` | theorems about `AccessApps` |
| `Wildcards` | hostnames that overlap: the order of the document's rules and the guard before Access |
| `MCWildcards` | instances of `Wildcards` |
| `WildcardsProofs` | theorems about `Wildcards` |
| `AccessPolicy` | the policy controller and the Exposures that bind their applications to the policy |
| `MCAccessPolicy` | instances of `AccessPolicy` |
| `AccessPolicyProofs` | theorems about `AccessPolicy`; it implements `Owned` |

The refinements:

- `Ingress` implements `TunnelSpec`. `Tunnel` plays two parts: it is the detailed
  model of its controller, and, through `ExposureChange`, the abstract
  specification of its environment. The Exposure controller and the users do to
  the Exposure objects only what `ExposureChange` allows, so everything proved of
  `TunnelSpec` holds of the composition. The mapping is the identity.
- `Tunnel` implements `TunnelLife` (`KeepsLife`), with `closing` mapped to "the
  finalizer's pass has listed the routes, found none and is at work". `TunnelRoute`
  is the route controller composed with `TunnelLife`, so what it shows holds with
  the real tunnel controller as well.
- `TunnelRoute` and `AccessPolicy` implement `Owned` (`RoutesAreOwned`,
  `PolicyIsOwned`): only the controller of a living object marks resources, it
  deletes only for an object that is being deleted, and the object goes only when
  the resource its status tracks does not carry its mark any more. The mapping
  takes the stored objects, their tracked ids and the resources with their mark.

### LeaseRules and Failover

A site's pass is `pc[s]`; one action is one Cloudflare call together with the
Kubernetes reads and writes next to it, which only this site's worker can see.

| Action | Code |
|---|---|
| `Begin`, `Refuse` | `Reconcile` up to the gate: finalizer, another live Exposure of the group in the cluster (`GroupConflict` is `hasFailoverGroupConflict`), site id, DNS management, the clock, the token |
| `RivalListLeases`, `RivalDeleteLease`, `RivalGone` | `reconcileDelete` of that other Exposure, which deletes the leases of the site it shares; it never got past the gate and has nothing else |
| `FailClosed`, `ResolveDuplicates`, `ResolveDelete`, `ResolveDone` | `readLease`, `failClosed`, `resolveDuplicates` |
| `StandBy`, `HoldPrimary`, `DecideWrite` | the verdicts of `dr.Decide` in `reconcileFailoverRole` |
| `CreateLease`, `UpdateLease`, `CreateLeaseRetried` | `writeLease`; the last one the client's `withRetry` around a Create |
| `LostRace`, `BecomePrimary` | the read-back of `writeAndVerifyLease` |
| `ReconcileAccess`, `ListDns`, `WriteDns`, `SaveStatus` | the shared part of `Reconcile` |
| `FinHoldsLease` ... `FinDrop` | `reconcileDelete`, `holdsLiveLease`, `deleteOwnedLeaseIfPresent` |
| `Tick`, `Annotate`, `Delete`, `ApplyRival`, `DeleteRival`, `ForeignRecord`, `Abort` | time, users, strangers, crashes and failed calls |

`rival[s]` is a second Exposure of the group in the cluster of site s, applied by
mistake (it counts as a fault) while the first one is live. The two share one
worker, so its finalizer runs between passes of the first.

`now[s]` is the wall clock read once at the start of a pass and used to its end,
as in the code; `Skew` sets the sites' clocks apart. A lease is cut down to whole
seconds when it is written (`Serialize`), and the clock counts `Unit` ticks to
the second. Requeue times and jitter become passes that start at any moment.

### Tunnel

`tpc` is the pass; `tid`, `thash`, `troutes`, `tready` are the status (the hash
as the document it is the hash of), `tunnels` and `config` are Cloudflare's,
`secret`, `daemon`, `dtoken`, `pods` the workload, each as the tunnel whose token
it carries. `GetTunnel` ... `SaveTunnelId` are `reconcileCloudflareTunnel` with
its three names (the generated one, the bare one of older versions, which
`RenameTunnel` changes, any other);
`UpsertTokenSecret` and `UpsertDaemonSet` the workload; `BuildConfig`,
`PutConfig`, `SaveConfig` are `reconcileTunnelConfig`; `CheckWorkload` is the
readiness; `TFinalize` ... `FinDropTunnel` the finalizer. `PodsStart`,
`DaemonSetRemoved` and `PodsRemoved` are Kubernetes.

### Ingress

`job` is the Exposure pass under way, with everything it read at its start:
tunnel id, published route, the two specs. `EBegin` is `Reconcile` up to its
first call to Cloudflare; `EAccess`, `EListDns`, `EWriteDns`, `EUndoDns`, `ESave`
the rest; `EFinalize` ... `EFinDrop` are `reconcileDelete`. `EAccessFails` and
`EDnsFails` are the failures that the code reports together with what it has
written so far; the call that failed may have been carried out and its answer
lost. `AbortExposure` is a crash or any other error.

### TunnelRoute

`stored` is each object as the API server has it; `rlife` and `seen` are the cached
copy, `fresh` says whether they agree, and `Deliver` is the watch. A write based on
an old copy fails with a conflict; `current` says whether the finalizer's pass may
still write. `rpass` is the pass of the one worker.

| Action | Code |
|---|---|
| `RBegin`, `ReferencedTunnel` | `Reconcile`: finalizer, tunnel, network, credentials |
| `GetRoute`, `PreflightRouteTarget`, `ListRoutes`, `EditRemote`, `CreateRemote` | `reconcileCloudflareRoute` and `preflightRouteTarget`; `Matches` is `tunnelRouteMatches` |
| `SetRouteStatus` | `setRouteStatus`, which reads the object again, from the cache |
| `RouteCallFails` | a Get, List, Edit or Create that fails, the write carried out or not: `Reconcile` saves a not-ready status with the old id |
| `RFinalize` ... `FinDropRoute` | `reconcileDelete` |
| `ApplyRoute`, `EditRoute`, `DeleteRoute`, `MeddleRoute`, `AbortRoute` | users, others, crashes and failed calls |

### AccessApps

`apps` are the applications at Cloudflare, with their name, domains, policies and
whether they carry the object's tags (`own`); `by` is a history field, whether they
were created for the object. A pass (`apass`) keeps the list it began with.

| Action | Code |
|---|---|
| `Begin` | `desiredAccessApplications` and the policies: refuse or go on |
| `ListApps` | `prepareOwnedAccessApplications`: the list, and applications of others in the way |
| `ApplyEntry`, `WriteFails` | `reconcileOwnedAccessApplications`: by name, else by coverage; as it should be, updated, created; the status so far when a call fails, which may have been carried out all the same (`AnswerLost`) |
| `PruneApp`, `SaveStatus` | own applications that no entry was matched with; `exposureAccessReady` |
| `ListOwn`, `DeleteApp`, `DeleteTags` | `deleteAccessApplications`, `deleteOwnedAccessTags` |
| `Finalize`, `DropFinalizer` | `reconcileDelete` |
| `MeddleApp`, `AbortPass`, `EditSpec`, `DeleteExposure` | others, crashes and failed calls, users |

### Wildcards

A hostname is its labels, the last one first, and whether a wildcard label stands
before them. `doc` is the document at Cloudflare as a sequence of Exposures,
`routes` what the tunnel's status says of it, `built` the document that the tunnel's
pass has built and not yet written or recorded; `Sorted` is every
sequence that `sort.Slice` may return, so that an order left open by `Less` would
show up as a choice. All of the Exposures have an origin; one whose origin is not
resolved yet is in `Tunnel`.

| Action | Code |
|---|---|
| `BuildDocument`, `PutDocument`, `SaveRoutes` | `reconcileTunnelConfig`: List, `Build` (conflict, sort) and the comparison with the status; the write; the status |
| `BeginRefused`, `BeginPass` | `Reconcile` up to `hasDuplicateHostname` and `hasAccessWildcardOverlap` |
| `FinishPass` | the rest of the pass: applications as the spec that was read says, status |
| `Finalize` | `reconcileDelete` |
| `Apply`, `SwitchAccess`, `Delete` | users |

`withdrawn` is a history variable: the Exposures whose Access was switched off, or
that were deleted, since their last pass. A pass that fails before it writes is one
that has not begun; those that fail half way are in `Ingress` and `AccessApps`.

### AccessPolicy

There is one `CloudflareAccessPolicy`, whose Cloudflare name is fixed (`policyName`
is immutable), and the policies at Cloudflare, each with that name or another and
with the contents of some spec or rules the controller cannot read. `ppass` is the
pass: it keeps the spec, id and hash it read, and then the outcome it is to save.

| Action | Code |
|---|---|
| `AddFinalizer`, `Begin` | `Reconcile` up to its first call |
| `ListPolicies`, `MatchPolicy`, `CreatePolicy` | without an id: recover by name, refuse or create |
| `GetPolicy`, `UpdatePolicy` | with an id: gone, unreadable, renamed, different, in order |
| `SetPolicyStatus` | `setPolicyStatus`, which reads the object again and stamps its present generation |
| `Finalize` ... `FinDropPolicy` | `reconcileDelete` |
| `ResolvePolicy`, `BindApplication` | `resolveAccessPolicyUUID` and the write of the application in the Exposure's pass |
| `Meddle`, `AbortPolicy`, `AbortExposure`, `EditSpec`, `EditRef` | strangers, crashes and failed calls, users |

`RulesHash` is a constant: specs may share a hash, because it covers the rules and
not the decision. A Create may be carried out twice (the client's retry), which
`repeats` counts.

## 3. Properties and runs

Passing runs:

| Run | Shows |
|---|---|
| `manual` | `PromotedOnlyByOperator`: only a site that was given a token holds lease, role or CNAME; `AwaitingPromotionAlerts`: one that waits while nobody serves ends up not Ready; `ForcedPromotionTakes`: a site that is given a token becomes Primary, whatever pass is cut short or overtaken by the peer on the way |
| `survives` | One Exposure deleted at any moment, with a crash or a repeated Create: `OneLeasePerSite` (two records of a site are one Create, repeated), `GoneHoldsNoLease`, `DeletionCompletes`, and `Converges` (one site serves, the others stand by); `ServingStays`: nothing but deletion, force, expiry or a foreign record takes the surface from a site that serves |
| `faults` | Two racing sites with skewed clocks, one of which may stop for good at any step, with a foreign record, a repeated Create, a crash, or a second Exposure of the group applied and deleted: `FailsClosed`: a foreign record at the lease name demotes; `TakesOver`: a primary that stops is succeeded |
| `tunnel_life` | `ReadyRunsTracked` and `StoppedBeforeDeleted` through legacy tunnels, losses, renames, edits and crashes; `KeepsLife`, the refinement of `TunnelLife` |
| `tunnel_route` | With a lagging cache, an edit, a stranger's route and a fault anywhere: `OneRouteInAPlace`, `OthersKept`, `TunnelOutlivesRoutes`, `RoutesAreOwned`, `RoutesConverge`, `RouteDeletionCompletes` |
| `ingress_faults` | With one fault anywhere: `AccessBeforeDns`, `ForeignKept`, refinement of `TunnelSpec`, `SurfaceConverges`, `TeardownCompletes` |
| `ingress_clean` | `NoLeftovers` for two Exposures of one hostname, in any order of user actions, without faults; `StatusIsRemote`: whatever they do while the document is written, the hash and routes in the status are those of the remote one |
| `access_policy` | With two faults anywhere: `OneOwnPolicy`, `ReadyMeansApplied` (without faults), `PolicyIsOwned`, `ApplicationsFollow` (spec, policy and applications agree in the end), `UnnamedUnbound` (without Access or without naming the policy an Exposure ends up unbound, also when the policy is deleted under a pass that has resolved it), `PolicyDeletionCompletes` |
| `access_apps` | Two edits among ten specs, a stranger's application and a fault anywhere: `OthersAppsKept`, `NothingLeft` (without faults), `AppsConverge` (one application for each entry, none else); `SettledStays`: a pass over applications that are in place writes nothing |
| `wildcards` | `MostSpecificWins`: the first rule that matches a request is the most specific one, whether a wildcard stands for one label (Cloudflare's DNS) or for several (cloudflared); `DocumentSettles`: the document is not rewritten for ever, although each pass sorts it anew, and ends up, as does the status, with the rules of the Exposures there are, although these come and go between the List and the writes; `OneAccessPerRequest`; `ReadyUnlessContested`: all but those that contest a hostname get Ready, and of these none |

Runs in which TLC finds that the code does not do what its documents say
(quoted under "findings" in `PROJECT.json`):

| Run | What happens |
|---|---|
| `orphans` | The finalizer deletes the lease before the CNAME and the application. After a crash in between, the next pass no longer holds the lease and drops the finalizer; when it was the last site the surface stays. |
| `token_replayed` | A crash after a forced write and before the status write: the next pass finds its own lease and holds it without recording the token. The next renewal would record it, since with the token pending it is a forced write; but when the lease lapses before that and a peer takes over, the site's next pass overthrows the peer's live lease with the token it had used already. |

### Observations without a run

Weaker statements hold in these places, and the models contain the behaviour:

- A peer may write its lease into a record between the finalizer's listing and
  its delete by id (`exposure_failover.go:434`), and take the surface over
  between `holdsLiveLease` and the deletion of the CNAME
  (`cloudflareexposure_controller.go:797`). The peer's record or CNAME goes;
  `Converges` shows that its later passes put it back.
- A site that paused between its read and its write renews by id over a peer's
  live lease (`exposure_failover.go:364`).
- `Resolve` drops expired records by the caller's clock; two sites may compute
  different winners and between them delete every record. The next pass acquires
  again. A forced write may do the same: it puts its site into a peer's record,
  which so gets another place in the order after a resolution was computed.
  `LeaseSurvives` says that these, deletion and the finalizer of a second Exposure
  of the group are the only ways to lose the lease.
- A Create repeated by the client leaves two records of one site, equal but for the
  id (`OneLeasePerSite`). `Resolve` lets only that site delete both or either
  (`internal/dr/resolve.go:33`), so when it dies first its peers find duplicates in
  every pass and none takes over until somebody deletes a record; `TakesOver`
  excludes this.
- Two Exposures of one group in a cluster both back off while both live, the first
  with the role it had. When the second is deleted, its finalizer deletes the lease
  by the site's id (`exposure_failover.go:430`), which is the one the first holds.
  Under Automatic promotion the first acquires again (`TakesOver`) unless a peer
  comes first; under Manual it stands by and waits for a new token.
- Two sites with a token each that is not recorded yet take the lease from each
  other; `ForcedPromotionTakes` leaves this out.
- An edited document is not corrected, nor one whose status write failed before
  the Exposures went back to what they were
  (`cloudflaretunnel_controller.go:273`): the hash in the status is compared, not
  the remote document. `StatusIsRemote` is therefore stated without faults.
- Ready for a new origin only asks that some route of the Exposure is published
  (`cloudflareexposure_controller.go:947`).
- A tunnel created by a pass that died before its status write is not looked for
  by the finalizer (`cloudflaretunnel_controller.go:197`), and an Exposure
  applied after the finalizer's listing does not hold the tunnel back.
- A CNAME created by a pass that died before its status write is not in the
  status the finalizer goes by (`cloudflareexposure_controller.go:781`): an
  Exposure deleted then leaves it, although `internal/naming/names.go:13` says
  that Cloudflare-side resources are cleaned up first. `NoLeftovers` is therefore
  checked without faults; with `Crashes = TRUE` and `MaxFaults = 1` TLC finds it
  violated. The same holds of a policy (`cloudflareaccesspolicy_controller.go:178`).
- After such a crash an edit of the policy's spec leaves the controller with its
  own policy under its name and no id: it reports ForeignPolicy until somebody
  steps in (`cloudflareaccesspolicy_controller.go:112`). `ApplicationsFollow`
  leaves this out with `Unobstructed`.
- The policy's condition carries the generation of the end of the pass, so for
  one pass Ready may be reported, and resolved by Exposures, for a spec that was
  not applied yet (`cloudflareaccesspolicy_controller.go:212`).
- The finalizer of a policy looks at the specs of the Exposures, not at their
  applications: one that has just stopped to name the policy may still be bound
  to it, or be bound to it once more by the pass under way, until its next pass
  (`UnnamedUnbound`). One that names the policy again after that look stays bound to
  the deleted policy and reports that it is missing.
- `docs/architecture.md:62` and `README.md:297` say that nothing is adopted; the
  code, as `spec.md:525` has it, takes over a policy that matches in full.
- `reconcileOwnedAccessApplications` looks applications up in maps made before its
  own updates (`cloudflareexposure_controller.go:498`). With a live application of
  entry a and domains Y, and a spec that gives a the domains X and Y to a new entry
  b, one pass updates that application twice and is Ready with one application
  missing, although `spec.md:843` asks for "a matching status entry and live owned
  Cloudflare app" of each entry. The next pass makes it good (`AppsConverge`).
- A failed write saves the entries done before it; when that is none and the object
  is deleted next, the finalizer finds nothing tracked and leaves the applications
  of an earlier pass. Tags stay when their deletion fails after that of the last
  application. `NothingLeft` is therefore stated without faults.
- A route object that is deleted during the first pass's Create: the status write
  conflicts, the id is never saved, the finalizer finds none and the route stays
  (`cloudflaretunnelroute_controller.go:129`). A route left like this has its
  object's comment; in the way of an Edit it counts as foreign all the same.
- The not-ready status of a pass that began with an old copy puts the older route id
  back into the status (`setRouteStatus`).
- A tunnel and a route that are both deleted wait for each other when the tunnel's
  `status.tunnelId` has been cleared: the route's finalizer wants the tunnel's id,
  the tunnel's finalizer wants the route gone. `RouteDeletionCompletes` leaves
  this out.
- A tunnel deleted in the dashboard is recreated, but the hash and routes in the
  status stay those of the lost one (`cloudflaretunnel_controller.go:421`), so the
  new tunnel gets no ingress document until something changes; and Ready comes back
  as soon as the DaemonSet has the new token, while pods of the lost tunnel are
  still being replaced (`cloudflaretunnel_controller.go:144`). `Tunnel` has this
  behaviour with `Loss = TRUE` and two ids; `ReadyRunsTracked` speaks of the pods
  and of the document as long as there has been one tunnel only.
- The guard against overlapping Access looks at specs, not at live applications
  (`cloudflareexposure_controller.go:134`). Access is switched off and on again at a
  hostname between two of its passes, and the pass of a wildcard over it comes in
  between: both have applications, both are refused from then on, and a refused pass
  removes nothing, although `README.md:246` says that "Access overlap is
  intentionally rejected". `OneAccessPerRequest` therefore excepts an Exposure whose
  Access was withdrawn and that has not been reconciled since.
- `spec.dns.manage` switched off after a CNAME was created but not saved leaves
  the CNAME.

### Bounds

Two sites race; that is where every pairwise interleaving of the protocol
happens, and the theorems cover any number. `MaxClock` is at least one lease
(`LeaseSeconds` of 1 or 2), so that leases expire, are renewed and are taken over;
in the liveness runs the clock stops there, which stands for "after the last
expiry". `MaxFaults = 1` puts one crash, failed call, foreign record, second Exposure of the
group or edit at every step of every pass (two in `tunnel_life` and `access_policy`); `MaxEdits` bounds edits of
specs and annotations. A site without
an identity of its own (`Refused`) takes part in `orphans` only; `Refuse` is taken
in `faults` for a group conflict. `Ids`, `RecordIds` and `TunnelIds` are large enough that
no action is disabled for want of an id. Two Exposures share a hostname
(`SharedHost`) where conflicts matter, and there they are interchangeable, which
`ingress_clean` uses as a symmetry (it checks safety only). In `tunnel_route` one
object, three specs, one tunnel id, four route ids, one edit and one fault; two
objects without faults (525 thousand states) and one object with two faults (1.2
million) pass as well but take minutes. In `access_apps` two names, ten specs (one
and two entries, domains exchanged, merged, renamed or written another way, four
invalid, Access off), seven ids, two edits and one fault; two faults with eight ids
pass as well (2 million states). In `access_policy` one Exposure, three specs of which two
share a hash, and two edits: a reference made and withdrawn, or made before or after
an edit of the spec. In `wildcards` a wildcard
and two hostnames under it that are as specific as each other, of which the wildcard
and one hostname may have Access, requests for these, for others under the wildcard
and for none, and one edit; the wildcard may be deleted, and with all three
Exposures deletable the run (375 thousand states) is too long for its liveness
properties. A deeper wildcard is covered by the theorems. Deadlock checking is
off where every object may be deleted and the system may stop.

### Fairness

- `Failover`: `WF` on the clock and on the steps of every site in `Alive`. Each
  path of a pass ends in a timed requeue or in an error that the work queue
  retries, so a running operator always starts another pass. Sites outside
  `Alive` may stop for good at any step.
- `Ingress`: `WF` on the steps of a pass under way, on the tunnel's pass and on
  Kubernetes' own steps; `SF` on the start of a pass for each Exposure, because one
  queue serves all Exposures: an Exposure is enabled only while no other one is
  being reconciled, and the queue, refilled by watches, errors, requeues and the
  cache's resync, passes nobody over.
- `AccessPolicy`: `WF` on the policy's pass and on the Exposure's pass under way,
  `SF` on the start of a pass for each Exposure, for the same reason; an Exposure
  whose policy is not Ready is requeued.
- `TunnelRoute`: `WF` on the pass under way and on the watch of each object, `SF` on
  the start of a pass for each object: one worker serves all of them.
- `Wildcards`: `WF` on the Exposure's pass under way and on the tunnel's pass, `SF`
  on the start of a pass for each Exposure.
- `AccessApps`: `WF` on the pass, which status changes, errors and requeues repeat.

Users, faults and meddling are never fair.

## 4. Proofs

All theorems are for every value of the constants that the named assumptions
(`LeaseRulesAssumption`, `FailoverAssumption`, `TunnelAssumption`,
`IngressAssumption`, `PolicyAssumption`, `RouteAssumption`, `AppsAssumption`, `WildcardsAssumption`) allow:
any number of sites, Exposures, routes, entries, ids, tokens, faults and edits, any
clock skew. The assumptions type the constants, and `WildcardsAssumption` says that
`Alpha`, the order of strings, tells two hostnames apart; a theorem that needs more
states it.

| Theorem | Needs | Along |
|---|---|---|
| `TypeCorrect` | | one step per action |
| `OneLease` | | `LeaseInv`: records have distinct ids, two of a site come from one repeated Create, and a pass about to write addresses every record of its site and at most one (`WriteKnowsOwn`). Without the last part a second Create, or an update of one of two equal records, could not be excluded. |
| `GoneLeavesNoLease` | `~ForeignRecords` | `FinalizerInv`: passes run only for objects that exist, a finalizer past its listing knows all records of its site, and past the deletions there is none |
| `ManualPromotion` | | `PromotionInv`: every token in use was issued; a site given none has no lease, is not Primary and is not about to write (`DecideManual` is the lemma about `Decide`) |
| `ServiceIsStable` | | inductive with `TypeOK`. `Settled` says more than that a site serves: no peer is about to write, to tear down or to delete its lease by an id read earlier, which the lines named in the observations would allow |
| `ResolveAgrees` | clocks that agree on what has expired | `Winner` is one record by `Before`, which orders records with distinct ids totally |
| `LeaseSurvives` | `Tokens = {}`, `Deletable = {}`, `Rivals = {}`, `[]InTime` | `SurvivalInv`: a record that some pass has yet to delete sorts after another one that is there (`DeletesLater`), and an update addresses a record of its own site, so that it does not move in the order. The hypotheses on the constants are needed: see the observations |
| `TunnelTypeCorrect`, `ReadyTunnelRuns`, `StoppedFirst` | | `TunnelInv`: what each step of a pass has already made true of id, Secret, DaemonSet and document, and of the pods in a finalizer. `ReadyTunnelRuns` needs two more: every remote, tracked and running id (token, pods) has been assigned by a Create (`AssignedInv`), and a hash in the status, or about to be there, is that of a document some assigned tunnel still has, until the finalizer deletes the tracked one (`WrittenInv`) |
| `StatusFollowsRemote` | `MaxFaults = 0` | `RecordInv`: without an id nothing is recorded, a tracked tunnel is there, and between the write of the document and that of its hash the remote document is the one the pass built |
| `TunnelKeepsLife` | | `LifeInv`: what the finalizer has listed is empty while it is at work, and the id does not change then |
| `TunnelIsStable` | | from `TunnelTypeOK`. `TunnelSettled` is the state of id, Secret, DaemonSet, pods, document and status that no step of a pass writes to, and where a pass may then be. Exposures may change as long as `Build` does not |
| `IngressInvariance`, `ImplementsTunnel` | | each step of `Ingress` is one of `TunnelNext` or a stutter; `FinInv` (only Exposures being deleted are finalized) is needed for the finalizer's last step |
| `IngressReadyRuns`, `IngressKeepsLife`, `IngressStatusRemote`, `IngressTunnelStable` | `MaxFaults = 0` for the third | the tunnel theorems through `ImplementsTunnel` |
| `SurfaceIsStable` | | from `IngressInv`: a pass that began before the Exposure was settled, or that of another Exposure, holds no record or application of it that it would change (`SeesSurface`); hostnames claimed twice are excluded by `Alone` |
| `ForeignSafe` | | `IdInv` and `WriteInv`: ids are never reused, so the record that was the pass's own when listed is so when written |
| `AccessFirst` | | `AccessInv`: past its first step a pass has the application it read that it needs |
| `LeavesNoRecord` | `MaxFaults = 0` | `CleanInv`: between passes the status tracks all there is (`Remembered`), a pass knows what the status will get (`KnowsRecords`, `KnowsApp`), a hostname has one record with its Exposure's comment (`Zone`), and an Exposure without a finalizer has nothing. The finalizer goes by the status, so nothing weaker is inductive |
| `PolicyTypeCorrect`, `PolicyNotDuplicated`, `PolicyReadyApplied` | | `PolicyInv`. `OneOwnPolicy` alone is not inductive: a policy renamed by others no longer counts, and an update gives it its name back. The invariant therefore bounds the *claimed* policies, those of the name and those whose id the status or the pass holds (`ClaimsBounded`); it also says what a pass knows at each step (`PassKnows`: Create is reached only without a policy of the name), that an outcome about to be saved is true (`SavesTruth`) and that the tracked policy is gone before the finalizer (`DroppedLast`, which `PolicyKeepsPromise` needs) |
| `PoliciesAreStable` | | from `PolicyInv` and `OneTracked` (the status and a pass hold one id at most) |
| `PolicyKeepsPromise` | | each step is one of `Owned` or a stutter, from `PolicyInv` |
| `RouteTypes`, `RoutesStaySingle`, `TunnelGoesLast`, `OthersRoutesKept`, `RoutesKeepPromise` | | `RouteInv` = `TypeOK`, `Beliefs`, `PlacesBounded`, `ClosedForAll`. `Beliefs` says how far the cached copy can be behind the stored object (`CacheLags` lists the pairs), that ids are given once, and what a pass knows of its object and of the routes it will write; `PlacesBounded` counts *all* routes of a place, since one that lost its mark may block but not be doubled; `ClosedForAll` says that a route object first listed after the tunnel's finalizer has looked is too late to get a route |
| `RoutesAreStable` | | from `RouteInv`: ids are given once and `OthersKept` keep the passes of other objects away (`RouteKept`); the cached copy of a settled object is up to date and stays so (`ObjectStays`), and its pass finds the route by the id in the status (`PassStays`) |
| `AppTypes`, `OthersApps`, `LeavesNothing` | | `AppsInv` = `TypeOK`, `Marked`, `KnowsOld`, `Followed`. `KnowsOld`: what has the id of a listed application is the object's, because ids are given once; writes whose answer is lost are among the steps (`LostDoes`). `Followed`: without faults an object that tracks nothing has nothing, tags go with the last application, and a pass that has done an entry keeps an application it will not prune |
| `AppsAreStable` | | from `AppsInv`. `InHand` says what a pass has seen at each entry; a live application matches its own entry and, since tracked names and ids are distinct, no other, so neither an update nor the pruning finds anything |
| `WildcardTypes`, `SpecificFirst` | | `DocInv`: the document at Cloudflare, and one that is built and not yet written, is in the order of `Less`. `FirstIsFiner` is the lemma about hostnames: of two rules that match one request, the one that `Less` does not put second matches no request that the other does not |
| `OverlapGuarded` | | `GuardInv`: applications are live, and passes create them, only for Exposures that want Access or had it withdrawn (`AppsVouched`); a pass that is to create some has none in its way but withdrawn ones (`PassClear`), which stays so because there is one worker |
| `OneDocument`, `DocumentIsStable` | hostnames not contested, for the first | two sequences of `Sorted` cannot differ at a first place: `Less` is total on distinct hostnames, so each of the two Exposures there would have to come before the other. A pass builds only what is not contested, and compares it with the status; `Placed` says of every step of a pass that it has nothing else to write |

Only model-checked: everything under fairness (`Converges`, `TakesOver`,
`FailsClosed`, `AwaitingPromotionAlerts`, `ForcedPromotionTakes`, `DeletionCompletes`, `SurfaceConverges`,
`TeardownCompletes`, `ApplicationsFollow`, `UnnamedUnbound`, `PolicyDeletionCompletes`,
`RoutesConverge`, `RouteDeletionCompletes`, `AppsConverge`, `DocumentSettles`,
`ReadyUnlessContested`), which the prover cannot do. Every safety and action property
that a run checks is also a theorem. Of the liveness properties that say `<>[]`, the
half that does not need fairness is proved, that what is reached is kept:

| Liveness, by TLC | Its stability, for every instance |
|---|---|
| `Converges` | `ServiceIsStable` |
| `SurfaceConverges` | `SurfaceIsStable`, `IngressTunnelStable` |
| `RoutesConverge` | `RoutesAreStable` |
| `ApplicationsFollow` | `PoliciesAreStable` |
| `AppsConverge` | `AppsAreStable` |
| `DocumentSettles` | `DocumentIsStable` |

Each is a closure: from a settled state, every step that the named disturbances are
not part of leads to a settled state. TLC reaches settled states in the runs, so none
of them is vacuous. The type invariants are proved, so that no run spends its time on
them.

## 5. What is abstracted and left out

- An Exposure has one Access application in `Ingress` and `Failover` (present or
  not) and in `AccessPolicy` (bound to a policy or absent); several only in
  `AccessApps`, where the tunnel does not manage DNS. One CNAME per hostname, since
  Cloudflare refuses a second. Cloudflare is taken to accept two applications with
  the same domains, as the repository's fake does.
- In `Failover` the tunnel is assumed to publish its route, and the tunnel of a
  lease is that of its site.
- In `Ingress` the listing and deletion of a CNAME by the finalizer are one step.
  A CNAME for an empty tunnel id may be accepted or refused.
- In `AccessPolicy` others edit, rename and remove policies but give no policy the
  controller's name once it has started; one may have it before. The references
  kept in the policy's status are left out.
- A status write reads the object again first; outside `TunnelRoute` a conflict or
  another failure is a crash at that point.
- Invalid names and missing credentials end a pass before it does anything.
- Only `TunnelRoute` reads objects through a cache that lags; the other modules read
  them as they are.
- In `Tunnel` and `Ingress` the rules of the document are a set; their order and the
  overlap of wildcards are in `Wildcards`, which leaves the faults of the writes to
  these two and to `AccessApps`.
- Not modelled at all: the test fake, credentials, metrics, generated code and
  start-up.

## 6. Plan

Done: the lease protocol, the tunnel controller, the Exposure controller and
their composition, the policy controller with the Exposures it serves, the route
controller composed with the tunnel, the Access applications, overlapping
hostnames, the two abstract specifications, and the theorems above. What is left, in this order:

1. More of the composition: `LeavesNoRecord` with faults, for an Exposure whose
   status tracks what its passes wrote.
2. A lagging informer cache in `Ingress` and in `Failover`, as in `TunnelRoute`.
3. The Access applications of `AccessApps` and the failover gate in one module with
   the CNAME of `Ingress`.

`Owned` is not a specification of `Ingress` or `AccessApps`: they also remove
resources of living objects, when `spec.dns.manage` or Access is switched off and
when entries are pruned.
