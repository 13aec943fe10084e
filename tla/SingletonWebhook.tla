-------------------------- MODULE SingletonWebhook --------------------------
(***************************************************************************)
(* The admission webhook that keeps GrafanaInstance, PrometheusInstance    *)
(* and LokiInstance to one of a kind per namespace                         *)
(* (internal/webhook/v1alpha1), for one kind: the API server asks it about *)
(* each create, it answers from the manager's informer cache, which covers *)
(* every namespace, and the API server stores the object afterwards.       *)
(***************************************************************************)
EXTENDS Naturals, Sequences, FiniteSets

CONSTANTS
  Namespaces,
  Names,
  Patient,     \* where creates wait for each other and for the informer
  MaxRemovals, \* bound: instances deleted
  MaxFaults    \* bound: admission calls that fail

ASSUME BoundsAssumption ==
  /\ Patient \subseteq Namespaces
  /\ {MaxRemovals, MaxFaults} \subseteq Nat

Instances == Namespaces \X Names
In(ns) == {ns} \X Names

VARIABLES
  stored,  \* instances on the API server, terminating ones included
  lag,     \* versions of the store the informer has yet to see, oldest first
  cache,   \* the informer's version
  request, \* each instance's create: none, asked (the webhook) or allowed
  removals, faults

vars == <<stored, lag, cache, request, removals, faults>>

\* Every variable has its type, and the informer lags behind the store by
\* exactly the versions it has yet to see.
TypeOK ==
  /\ {stored, cache} \subseteq SUBSET Instances
  /\ lag \in Seq(SUBSET Instances)
  /\ stored = IF lag = <<>> THEN cache ELSE lag[Len(lag)]
  /\ request \in [Instances -> {"none", "asked", "allowed"}]
  /\ removals \in 0..MaxRemovals
  /\ faults \in 0..MaxFaults

Init ==
  /\ stored = {} /\ cache = {} /\ lag = <<>>
  /\ request = [i \in Instances |-> "none"]
  /\ removals = 0 /\ faults = 0

Store(new) ==
  /\ stored' = new
  /\ lag' = Append(lag, new)
  /\ UNCHANGED cache

Become(i, state) == request' = [request EXCEPT ![i] = state]

(***************************************************************************)
(* The API server and the users                                            *)
(***************************************************************************)

\* A user posts a new instance and the API server calls the webhook.
Ask(i) ==
  /\ request[i] = "none"
  /\ i \notin stored
  /\ i[1] \in Patient => lag = <<>> /\ \A j \in In(i[1]) : request[j] = "none"
  /\ Become(i, "asked")
  /\ UNCHANGED <<stored, lag, cache, removals, faults>>

Persist(i) ==
  /\ request[i] = "allowed"
  /\ Become(i, "none")
  /\ Store(stored \cup {i})
  /\ UNCHANGED <<removals, faults>>

\* A deleted instance disappears, its finalizers released.
Remove(i) ==
  /\ i \in stored
  /\ removals < MaxRemovals
  /\ removals' = removals + 1
  /\ Store(stored \ {i})
  /\ UNCHANGED <<request, faults>>

(***************************************************************************)
(* The manager                                                             *)
(***************************************************************************)

\* The informer sees the next version.
CacheSync ==
  /\ lag # <<>>
  /\ cache' = Head(lag)
  /\ lag' = Tail(lag)
  /\ UNCHANGED <<stored, request, removals, faults>>

\* The list, from the cache, of the instances of i's namespace.
ListAllNamespaces(i) == cache \* mutant: not limited to the namespace
List(i) == cache \cap In(i[1])

rejectIfSiblingExistsSwapped(i) == i \in List(i) \* mutant: skips the others
rejectIfSiblingExists(i) == \E j \in List(i) : j[2] # i[2]

ValidateCreateWarns(i) == \* mutant: a third answer
  /\ request[i] = "asked"
  /\ Become(i, IF rejectIfSiblingExists(i) THEN "warned" ELSE "allowed")
  /\ UNCHANGED <<stored, lag, cache, removals, faults>>

ValidateCreate(i) ==
  /\ request[i] = "asked"
  /\ Become(i, IF rejectIfSiblingExists(i) THEN "none" ELSE "allowed")
  /\ UNCHANGED <<stored, lag, cache, removals, faults>>

\* The List fails, or the webhook cannot be reached (failurePolicy: Fail).
Unanswered(i) ==
  /\ request[i] = "asked"
  /\ faults < MaxFaults
  /\ faults' = faults + 1
  /\ Become(i, "none")
  /\ UNCHANGED <<stored, lag, cache, removals>>

-----------------------------------------------------------------------------
Next ==
  \/ CacheSync
  \/ \E i \in Instances :
       \/ Ask(i) \/ ValidateCreate(i) \/ Unanswered(i) \/ Persist(i)
       \/ Remove(i)

\* Requests are answered and carried out, the informer keeps up, and users
\* ask again for what they were refused.
Fairness ==
  /\ WF_vars(CacheSync)
  /\ \A i \in Instances :
       WF_vars(Ask(i)) /\ WF_vars(ValidateCreate(i)) /\ WF_vars(Persist(i))

Spec == Init /\ [][Next]_vars /\ Fairness

SingleIn(namespaces) ==
  \A i, j \in stored : i[1] = j[1] /\ i[1] \in namespaces => i = j

\* At most one instance of the kind per namespace, where a create waits for
\* the one before it to be decided, stored and seen by the informer
\* (singleton.go:34-53).
PatientSingleton == SingleIn(Patient)

\* At most one instance of the kind per namespace, whatever users do
\* (singleton.go:27-33). A create is admitted on a list that misses one
\* admitted or stored before it (singleton.go:35).
AtMostOne == SingleIn(Namespaces)

\* Being refused is not forever: a namespace in which instances keep being
\* asked for gets one, whatever other namespaces hold and however old the
\* list a create was refused on (singleton.go:35, 44-50).
Provisioned == \A ns \in Namespaces : []<>(stored \cap In(ns) # {})

=============================================================================
