---------------------------- MODULE AccessControl ----------------------------
(***************************************************************************)
(* Who may do what: the roles (packages/core/src/security/rbac.ts), the    *)
(* tokens that carry them and the guard of the routes                      *)
(* (services/orchestrator/src/auth.ts, the onRequest hook of server.ts),   *)
(* and the routes of routes/index.ts that change something or answer with  *)
(* evidence, each a statement and then an entry of the ledger.             *)
(*                                                                         *)
(* Identity Platform is external: it holds the custom claims, and issues   *)
(* tokens that carry the claims of the moment.                             *)
(***************************************************************************)
EXTENDS Naturals, FiniteSets, Sequences

CONSTANTS
  Operator,
  Claims,        \* lists of role names an operator may be provisioned with
  Served,        \* the routes that are asked for
  MaxRequests,   \* bound: requests in all
  MaxFaults      \* bound: failed statements, in all

VARIABLES
  claims,        \* the custom claim of each operator
  token,         \* the claim its present token carries
  request,       \* where the request of each operator stands
  acts,          \* what handlers did: [by, route, roles]
  entries,       \* audit_log: [by, route, outcome]
  refusals,      \* answers 403: [by, route]
  requests, faults

vars == <<claims, token, request, acts, entries, refusals, requests, faults>>
identity == <<claims, token>>

----------------------------------------------------------------------------
(* ROLE_DEFINITIONS: a permission is a resource and an action *)

Of(resource, actions) == {<<resource, a>> : a \in actions}

Grants == [
  owner |-> {<<"*", "*">>},
  admin |-> {<<r, "*">> : r \in {"agent", "run", "source", "workflow", "anomaly", "user",
                                 "comment", "reply", "credential"}}
            \cup Of("evidence", {"read", "export"}) \cup Of("audit", {"read"})
            \cup Of("config", {"read", "write"}),
  operator |-> Of("agent", {"read", "start", "stop", "beast_mode"})
            \cup Of("run", {"create", "read", "cancel"})
            \cup Of("source", {"read", "create", "update"})
            \cup Of("workflow", {"read", "execute"}) \cup Of("anomaly", {"read", "acknowledge"})
            \cup Of("evidence", {"read"}) \cup Of("audit", {"read"})
            \cup Of("comment", {"read", "label"}) \cup Of("reply", {"read", "approve"})
            \cup Of("credential", {"read"}),
  analyst |-> {<<r, "read">> : r \in {"agent", "run", "source", "evidence", "comment", "reply"}}
            \cup Of("workflow", {"read", "create", "update"})
            \cup Of("anomaly", {"read", "acknowledge"}),
  viewer |-> {<<r, "read">> : r \in {"agent", "run", "source", "workflow", "anomaly"}}]

Denies == [
  owner |-> Of("evidence", {"delete"}),
  admin |-> Of("evidence", {"delete"}) \cup Of("billing", {"*"}) \cup Of("audit", {"write"}),
  operator |-> Of("evidence", {"delete", "export"}) \cup Of("user", {"*"})
            \cup Of("config", {"write"}) \cup Of("billing", {"*"})
            \cup Of("credential", {"connect"}),
  analyst |-> Of("agent", {"beast_mode"}) \cup Of("evidence", {"delete", "export"})
            \cup Of("reply", {"approve"})
            \cup {<<r, "*">> : r \in {"user", "billing", "credential"}},
  viewer |-> {<<r, "*">> : r \in {"evidence", "audit", "user", "billing"}}]

Role == DOMAIN Grants

\* matches, of one pattern of a list
Matched(patterns, permission) ==
  \E p \in patterns : \A i \in {1, 2} : p[i] \in {"*", permission[i]}

\* Mutant: the first role that has a rule decides.
DecideFirst(roles, permission) ==
  LET rules == SelectSeq(roles, LAMBDA r : Matched(Denies[r] \cup Grants[r], permission)) IN
  rules # <<>> /\ ~Matched(Denies[Head(rules)], permission)

\* decide: no role of the list denies, and one of them grants.
Decide(roles, permission) ==
  /\ \A i \in DOMAIN roles : ~Matched(Denies[roles[i]], permission)
  /\ \E i \in DOMAIN roles : Matched(Grants[roles[i]], permission)

----------------------------------------------------------------------------
(* The routes *)

Permission == [
  createSource |-> <<"source", "create">>,      updateSource |-> <<"source", "update">>,
  acknowledge |-> <<"anomaly", "acknowledge">>, readEvidence |-> <<"evidence", "read">>,
  createWorkflow |-> <<"workflow", "create">>,  executeWorkflow |-> <<"workflow", "execute">>,
  stopWatch |-> <<"agent", "stop">>]
Route == DOMAIN Permission

\* Of these, the routes that leave an entry of their own.
Audited == Route \ {"executeWorkflow", "stopWatch"}

Pc == {"idle", "guard", "denial", "refuse", "handler", "audit"}
Idle == [pc |-> "idle", route |-> "none", roles |-> <<>>]

TypeOK ==
  /\ claims \in [Operator -> Claims]
  /\ token \in [Operator -> Claims \cup {<<>>}]
  /\ \A o \in Operator :
       /\ request[o].pc \in Pc
       /\ request[o].route \in Served \cup {"none"}
       /\ request[o].roles \in Seq(Role)
  /\ acts \in Seq([by : Operator, route : Served, roles : Seq(Role)])
  /\ entries \in Seq([by : Operator, route : Served, outcome : {"allowed", "denied"}])
  /\ refusals \in Seq([by : Operator, route : Served])
  /\ requests \in 0..MaxRequests /\ faults \in 0..MaxFaults

Init ==
  /\ claims = [o \in Operator |-> CHOOSE c \in Claims : TRUE]
  /\ token = [o \in Operator |-> <<>>]
  /\ request = [o \in Operator |-> Idle]
  /\ acts = <<>> /\ entries = <<>> /\ refusals = <<>>
  /\ requests = 0 /\ faults = 0

At(o, pc) == request[o].pc = pc
Becomes(o, r) == request' = [request EXCEPT ![o] = r]
GoTo(o, pc) == Becomes(o, [request[o] EXCEPT !.pc = pc])

\* setCustomUserClaims, by who provisions operators.
Provision(o) ==
  /\ \E c \in Claims \ {claims[o]} : claims' = [claims EXCEPT ![o] = c]
  /\ UNCHANGED <<token, request, acts, entries, refusals, requests, faults>>

\* The operator signs in, or the dashboard renews the token.
SignIn(o) ==
  /\ token[o] # claims[o]
  /\ token' = [token EXCEPT ![o] = claims[o]]
  /\ UNCHANGED <<claims, request, acts, entries, refusals, requests, faults>>

\* Authenticator.verify keeps the names of roles there are.
Recognized(names) == SelectSeq(names, LAMBDA r : r \in Role)

Arrive(o, route) ==
  /\ At(o, "idle") /\ token[o] # <<>>
  /\ requests < MaxRequests
  /\ requests' = requests + 1
  /\ Becomes(o, [pc |-> "guard", route |-> route, roles |-> Recognized(token[o])])
  /\ UNCHANGED <<identity, acts, entries, refusals, faults>>

\* requirePermission
Guard(o) ==
  /\ At(o, "guard")
  /\ GoTo(o, IF Decide(request[o].roles, Permission[request[o].route])
             THEN "handler" ELSE "denial")
  /\ UNCHANGED <<identity, acts, entries, refusals, requests, faults>>

Entry(o, outcome) == [by |-> o, route |-> request[o].route, outcome |-> outcome]

RecordDenial(o) ==
  /\ At(o, "denial")
  /\ entries' = Append(entries, Entry(o, "denied"))
  /\ GoTo(o, "refuse")
  /\ UNCHANGED <<identity, acts, refusals, requests, faults>>

\* 403
Refuse(o) ==
  /\ At(o, "refuse")
  /\ refusals' = Append(refusals, [by |-> o, route |-> request[o].route])
  /\ Becomes(o, Idle)
  /\ UNCHANGED <<identity, acts, entries, requests, faults>>

\* The statement of the route.
Handle(o) ==
  /\ At(o, "handler")
  /\ acts' = Append(acts, [by |-> o, route |-> request[o].route, roles |-> request[o].roles])
  /\ IF request[o].route \in Audited THEN GoTo(o, "audit") ELSE Becomes(o, Idle)
  /\ UNCHANGED <<identity, entries, refusals, requests, faults>>

RecordAct(o) ==
  /\ At(o, "audit")
  /\ entries' = Append(entries, Entry(o, "allowed"))
  /\ Becomes(o, Idle)
  /\ UNCHANGED <<identity, acts, refusals, requests, faults>>

\* A statement throws: 500, whatever was done before it.
Fail(o) ==
  /\ request[o].pc \in {"denial", "handler", "audit"}
  /\ faults < MaxFaults
  /\ faults' = faults + 1
  /\ Becomes(o, Idle)
  /\ UNCHANGED <<identity, acts, entries, refusals, requests>>

Serve(o) ==
  \/ \E route \in Served : Arrive(o, route)
  \/ Guard(o) \/ RecordDenial(o) \/ Refuse(o) \/ Handle(o) \/ RecordAct(o) \/ Fail(o)

Next == \E o \in Operator : Provision(o) \/ SignIn(o) \/ Serve(o)

Spec == Init /\ [][Next]_vars

----------------------------------------------------------------------------
(* What access control promises *)

\* Whatever a handler did was granted by a role of the token and denied by none of them,
\* whichever role is named first and whatever else the claim holds.  Every refusal was on
\* record before it was answered; and of what the audited routes did, only what a failure
\* interrupted or what is still being served is not on record.
AccessAccounted ==
  /\ \A i \in DOMAIN acts :
       LET rules(table) == UNION {table[acts[i].roles[k]] : k \in DOMAIN acts[i].roles} IN
       /\ Matched(rules(Grants), Permission[acts[i].route])
       /\ ~Matched(rules(Denies), Permission[acts[i].route])
  /\ \A o \in Operator, r \in Served :
       Cardinality({i \in DOMAIN refusals : refusals[i] = [by |-> o, route |-> r]})
         <= Cardinality({i \in DOMAIN entries :
                           entries[i] = [by |-> o, route |-> r, outcome |-> "denied"]})
  /\ Cardinality({i \in DOMAIN acts : acts[i].route \in Audited})
       <= Cardinality({i \in DOMAIN entries : entries[i].outcome = "allowed"})
            + Cardinality({o \in Operator : At(o, "audit")}) + faults
=============================================================================
