----------------------------- MODULE EchTransport ------------------------------
(* The transport of the native source (net/ech.py): every request needs the      *)
(* site's public ECH configuration, which is looked up by one request for all,   *)
(* kept for its time to live, and forgotten when a request with it fails; the    *)
(* site changes its keys, requests time out, and an update of the plugin         *)
(* replaces the client (sources/service.py, _native_provider).                   *)
EXTENDS Naturals, FiniteSets

CONSTANTS
  EchRequests,      \* requests, each made again until it is answered
  EchSlots,         \* _slots
  NoConfig,         \* no configuration is known
  NobodyAsks,       \* _config_lock is free
  MaxKeys,          \* bound: keys of the site, one after another
  MaxEchFaults,     \* bound: failures, timeouts and replaced clients
  MaxHops           \* bound: redirects of a request

ASSUME EchAssumption ==
  /\ IsFiniteSet(EchRequests) /\ NobodyAsks \notin EchRequests
  /\ {EchSlots, MaxKeys, MaxHops} \subseteq Nat /\ MaxKeys # 0

VARIABLES
  siteKey,          \* the key the site decrypts with, and its DNS record names
  config,           \* _config: the key as looked up and whether its time is over
  asker,            \* who holds _config_lock
  echRequests,      \* where each request stands, and the key it uses
  hops, echFaults

echVars == <<siteKey, config, asker, echRequests, hops, echFaults>>

Idle == [pc |-> "idle", key |-> 0]
At(r, pcs) == echRequests[r].pc \in pcs
HoldsSlot(r) == At(r, {"config", "lookup", "sent"})

EchInit ==
  /\ siteKey = 1 /\ config = NoConfig /\ asker = NobodyAsks
  /\ echRequests = [r \in EchRequests |-> Idle] /\ hops = [r \in EchRequests |-> 0]
  /\ echFaults = 0

EchTypeOK ==
  /\ siteKey \in 1 .. MaxKeys
  /\ config # NoConfig => config \in [key : 1 .. MaxKeys, over : BOOLEAN]
  /\ asker # NobodyAsks => asker \in EchRequests
  /\ echRequests \in [EchRequests -> [pc : {"idle", "waits", "config", "lookup", "sent", "answered"}, key : 0 .. MaxKeys]]
  /\ hops \in [EchRequests -> 0 .. MaxHops]
  /\ Cardinality({r \in EchRequests : HoldsSlot(r)}) <= EchSlots

Goes(r, to) == echRequests' = [echRequests EXCEPT ![r] = to]
Released(r) == asker' = IF asker = r THEN NobodyAsks ELSE asker

-----------------------------------------------------------------------------
MakeRequest(r) ==
  /\ At(r, {"idle"}) /\ Goes(r, [Idle EXCEPT !.pc = "waits"])
  /\ hops' = [hops EXCEPT ![r] = 0]
  /\ UNCHANGED <<siteKey, config, asker, echFaults>>

TakeSlot(r) ==
  /\ At(r, {"waits"}) /\ Cardinality({q \in EchRequests : HoldsSlot(q)}) < EchSlots
  /\ Goes(r, [Idle EXCEPT !.pc = "config"])
  /\ UNCHANGED <<siteKey, config, asker, hops, echFaults>>

(* Under the lock: the configuration that is known, or a lookup.                 *)
Unlocked == TRUE                        \* mutant: nobody waits for a lookup under way
LockIsFree == asker = NobodyAsks
Known == config # NoConfig /\ ~config.over

TakeConfig(r) ==
  /\ At(r, {"config"}) /\ LockIsFree
  /\ IF Known THEN Goes(r, [pc |-> "sent", key |-> config.key]) /\ UNCHANGED asker
     ELSE Goes(r, [Idle EXCEPT !.pc = "lookup"]) /\ asker' = r
  /\ UNCHANGED <<siteKey, config, hops, echFaults>>

LookedUp(r) ==
  /\ At(r, {"lookup"})
  /\ config' = [key |-> siteKey, over |-> FALSE] /\ Released(r)
  /\ Goes(r, [pc |-> "sent", key |-> siteKey])
  /\ UNCHANGED <<siteKey, hops, echFaults>>

(* The site answers what it can decrypt, or sends the request on.                *)
SiteAnswers(r) ==
  /\ At(r, {"sent"}) /\ echRequests[r].key = siteKey
  /\ \/ Goes(r, [Idle EXCEPT !.pc = "answered"]) /\ UNCHANGED hops
     \/ hops[r] < MaxHops /\ hops' = [hops EXCEPT ![r] = @ + 1] /\ Goes(r, [Idle EXCEPT !.pc = "config"])
  /\ UNCHANGED <<siteKey, config, asker, echFaults>>

(* A request that fails, because the key is another one or for itself, makes     *)
(* everybody look the configuration up again.                                    *)
KeptAsIs == config                      \* mutant: until its time is over
ConfigAfterFailure == NoConfig

RequestFails(r) ==
  /\ At(r, {"sent"})
  /\ IF echRequests[r].key # siteKey THEN UNCHANGED echFaults
     ELSE echFaults < MaxEchFaults /\ echFaults' = echFaults + 1
  /\ config' = ConfigAfterFailure /\ Goes(r, Idle)
  /\ UNCHANGED <<siteKey, asker, hops>>

(* A lookup fails, or the time for a request is over wherever it stands.         *)
GivesUp(r) ==
  /\ HoldsSlot(r) /\ echFaults < MaxEchFaults /\ echFaults' = echFaults + 1
  /\ Goes(r, Idle) /\ Released(r)
  /\ UNCHANGED <<siteKey, config, hops>>

ConfigEnds ==
  /\ Known /\ config' = [config EXCEPT !.over = TRUE]
  /\ UNCHANGED <<siteKey, asker, echRequests, hops, echFaults>>

SiteChangesKey ==
  /\ siteKey < MaxKeys /\ siteKey' = siteKey + 1
  /\ UNCHANGED <<config, asker, echRequests, hops, echFaults>>

(* The client of another package of the plugin: what used the old one fails.     *)
ReplaceClient ==
  /\ echFaults < MaxEchFaults /\ echFaults' = echFaults + 1
  /\ config' = NoConfig /\ asker' = NobodyAsks
  /\ echRequests' = [r \in EchRequests |-> IF HoldsSlot(r) THEN Idle ELSE echRequests[r]]
  /\ UNCHANGED <<siteKey, hops>>

RequestStep(r) ==
  \/ MakeRequest(r) \/ TakeSlot(r) \/ TakeConfig(r) \/ LookedUp(r) \/ SiteAnswers(r) \/ RequestFails(r)
EchNext ==
  \/ \E r \in EchRequests : RequestStep(r) \/ GivesUp(r)
  \/ ConfigEnds \/ SiteChangesKey \/ ReplaceClient

(* Requests go on; the time of a configuration may be as long as it likes.       *)
EchFairness == \A r \in EchRequests : WF_echVars(RequestStep(r))

-----------------------------------------------------------------------------
(* One request looks the configuration up, and the others wait for what it finds:*)
(* a change of keys does not make all of them ask.                               *)
OneLookup == Cardinality({r \in EchRequests : At(r, {"lookup"})}) <= 1

(* Whatever keys the site changed to, and however long the old ones may be used, *)
(* everybody who keeps asking is answered.                                       *)
EverybodyIsAnswered == <>(\A r \in EchRequests : At(r, {"answered"}))
=============================================================================
