------------------------------ MODULE Identity ------------------------------
(***************************************************************************)
(* Members, agents and tokens of one workspace: the seven capabilities     *)
(* that change their rows, each a SERIALIZABLE transaction of Postgres     *)
(* (SQLite runs one write transaction at a time, a subset of this).        *)
(*                                                                         *)
(* A call resolves its credential and passes the gate, once, before its    *)
(* transaction begins; its handler then reads a snapshot and writes at     *)
(* most one row; its audit row takes its id; it commits or it aborts.  An  *)
(* UPDATE of a row a concurrent transaction wrote waits for it and fails   *)
(* when it commits, and a transaction may not commit that read what a      *)
(* concurrent one has overwritten while a concurrent one read what it      *)
(* overwrites itself.  This is all that Postgres promises: predicates are  *)
(* the rows that matched them, and any transaction may abort at any time.  *)
(***************************************************************************)
EXTENDS Naturals, Sequences, FiniteSets

CONSTANTS
  Users, Agents, Tokens,   \* the keys of workspace_members, agents, agent_tokens
  Names,                   \* agent names
  Founder,                 \* the user the workspace was created by
  Calls,                   \* capability calls in flight at once
  Roles,                   \* the roles members are given
  Mintable,                \* the scope lists a caller asks agent.token_mint for
  NoRow, NoOne,            \* no row with this key, nobody
  MaxLog                   \* bound: audit rows written

Scopes == {"workspace:admin", "agent:create", "agent:revoke"}
ROLE_SCOPES == [r \in Roles |-> IF r \in {"owner", "admin"} THEN Scopes ELSE {}]
Keys == Users \cup Agents \cup Tokens

ASSUME KeysAssumption ==
  /\ Users \cap Agents = {} /\ Users \cap Tokens = {} /\ Agents \cap Tokens = {}
  /\ Names \cap Keys = {}
  /\ Founder \in Users
  /\ {"owner"} \subseteq Roles /\ Roles \subseteq {"owner", "admin", "member", "guest"}
  /\ NoOne \notin Keys \cup Calls
  /\ Mintable \subseteq SUBSET Scopes
  /\ MaxLog \in Nat

MemberRows == [role : Roles, dead : Nat]
AgentRows == [owner : Users, name : Names, dead : Nat]
TokenRows == [agent : Agents, scopes : SUBSET Scopes, dead : Nat]
Rows(k) ==
  IF k \in Users THEN MemberRows ELSE IF k \in Agents THEN AgentRows ELSE TokenRows

ASSUME RowAssumption == \A k \in Keys : NoRow \notin Rows(k)

Effects ==   \* what the audit log says of a call
  ({"member.add", "member.update_role"} \X Users \X Roles)
  \cup ({"member.remove", "agent.revoke", "agent.token_revoke"} \X Keys \X Nat)
  \cup ({"agent.create"} \X Agents \X Users \X Names)
  \cup ({"agent.update"} \X Agents \X Names)
  \cup ({"agent.token_mint"} \X Tokens \X Agents \X SUBSET Scopes)

VARIABLES
  rows,     \* the row of every key: `dead` is deleted_at or revoked_at, 0 for NULL
  phase,    \* of every call: idle, gated, handled, audited
  caller,   \* who a call acts for, as resolved when it came in
  work,     \* what a call's handler has read and written
  missed,   \* rows that others committed since a call took its snapshot
  readBy,   \* rows that those others had read
  log,      \* the audit rows in id order, the uncommitted ones with their call
  root,     \* history: the human at the end of the chain that created an agent
  source    \* history: the token a human minted that a token's chain begins with

vars == <<rows, phase, caller, work, missed, readBy, log, root, source>>

NoCaller == [by |-> NoOne, via |-> NoOne, can |-> {}]
NoWork == [key |-> NoOne, row |-> NoRow, effect |-> <<>>, reads |-> {}, locks |-> {}]
Pending(c) == phase[c] \in {"handled", "audited"}

LiveIn(state, k) == state[k] # NoRow /\ state[k].dead = 0
Live(k) == LiveIn(rows, k)
Owners == {u \in Users : Live(u) /\ rows[u].role = "owner"}

Init ==
  /\ rows = [k \in Keys |-> IF k = Founder THEN [role |-> "owner", dead |-> 0] ELSE NoRow]
  /\ phase = [c \in Calls |-> "idle"]
  /\ caller = [c \in Calls |-> NoCaller]
  /\ work = [c \in Calls |-> NoWork]
  /\ missed = [c \in Calls |-> {}]
  /\ readBy = [c \in Calls |-> {}]
  /\ log = <<>>
  /\ root = [a \in Agents |-> NoOne]
  /\ source = [t \in Tokens |-> NoOne]

-----------------------------------------------------------------------------
(* Credentials *)

\* Mutant: the resolver joins the agent's row but not its owner's membership.
ResolvesOwnerless(t) == Live(t) /\ Live(rows[t].agent)

\* A bearer token resolves while it, its agent and its agent's owner live.
Resolves(t) == Live(t) /\ Live(rows[t].agent) /\ Live(rows[rows[t].agent].owner)

\* A call comes in: its credential is resolved and the gate compares scopes
\* with what was resolved.  Principals that hold none of Scopes are refused.
Enter(c, who) ==
  /\ phase[c] = "idle"
  /\ who.can # {}
  /\ phase' = [phase EXCEPT ![c] = "gated"]
  /\ caller' = [caller EXCEPT ![c] = who]
  /\ UNCHANGED <<rows, work, missed, readBy, log, root, source>>

UserCalls(c, u) ==
  /\ Live(u)
  /\ Enter(c, [by |-> u, via |-> NoOne, can |-> ROLE_SCOPES[rows[u].role]])

AgentCalls(c, t) ==
  /\ Resolves(t)
  /\ Enter(c, [by |-> rows[t].agent, via |-> t, can |-> rows[t].scopes])

\* Mutant: what an agent creates is anchored to that agent.
HumanAnchorSelf(c) == caller[c].by

\* The human a call is attributed to: a user to itself, an agent to its owner.
HumanAnchor(c) ==
  IF caller[c].by \in Users THEN caller[c].by ELSE rows[caller[c].by].owner

-----------------------------------------------------------------------------
(* Transactions *)

\* The handler of c ran on a snapshot of now and wrote `row` to `key`: it holds
\* the lock of that row, and of the unique index entries it claimed, until its
\* transaction ends.  An empty `claims` with no row written locks nothing.
Perform(c, scope, w) ==
  /\ phase[c] = "gated"
  /\ Len(log) < MaxLog
  /\ scope \in caller[c].can
  /\ \A d \in Calls : work[d].locks \cap w.locks = {}
  /\ phase' = [phase EXCEPT ![c] = "handled"]
  /\ work' = [work EXCEPT ![c] = w]
  /\ UNCHANGED <<rows, caller, missed, readBy, log, root, source>>

Write(key, row, effect, reads, claims) ==
  [key |-> key, row |-> row, effect |-> effect,
   reads |-> reads \cup {key}, locks |-> claims \cup {key}]

Echo(key, effect) ==
  [key |-> key, row |-> rows[key], effect |-> effect, reads |-> {key}, locks |-> {}]

\* The audit row of c gets its id, after those given out before.
Audit(c) ==
  /\ phase[c] = "handled"
  /\ Len(log) < MaxLog
  /\ phase' = [phase EXCEPT ![c] = "audited"]
  /\ log' = Append(log, [of |-> c, effect |-> work[c].effect, echo |-> work[c].locks = {}])
  /\ UNCHANGED <<rows, caller, work, missed, readBy, root, source>>

Finish(c) ==
  /\ phase' = [phase EXCEPT ![c] = "idle"]
  /\ caller' = [caller EXCEPT ![c] = NoCaller]
  /\ work' = [work EXCEPT ![c] = NoWork]

\* Rows that concurrent transactions, ended or not, have read.
ReadAround(c) == readBy[c] \cup UNION {work[d].reads : d \in Calls \ {c}}

\* Mutant: REPEATABLE READ, which stops only at rows written twice.
SerializableNot(c) == TRUE

Serializable(c) ==
  work[c].reads \cap missed[c] = {} \/ work[c].locks \cap ReadAround(c) = {}

Commit(c) ==
  LET w == work[c]
      Around(d) == d # c /\ Pending(d)
      minted == w.key \in Tokens /\ rows[w.key] = NoRow
      made == w.key \in Agents /\ rows[w.key] = NoRow
  IN
  /\ phase[c] = "audited"
  /\ Serializable(c)
  /\ rows' = IF w.locks = {} THEN rows ELSE [rows EXCEPT ![w.key] = w.row]
  /\ log' = [i \in DOMAIN log |-> IF log[i].of = c THEN [log[i] EXCEPT !.of = NoOne] ELSE log[i]]
  /\ missed' = [d \in Calls |-> IF Around(d) THEN missed[d] \cup w.locks ELSE {}]
  /\ readBy' = [d \in Calls |-> IF Around(d) THEN readBy[d] \cup w.reads ELSE {}]
  /\ root' = IF made
             THEN [root EXCEPT ![w.key] =
                     IF caller[c].by \in Users THEN caller[c].by ELSE root[caller[c].by]]
             ELSE root
  /\ source' = IF minted
               THEN [source EXCEPT ![w.key] =
                       IF caller[c].via = NoOne THEN w.key ELSE source[caller[c].via]]
               ELSE source
  /\ Finish(c)

\* The log without the row of c, which an abort rolls back.
LogWithout(c) ==
  [i \in 1..(Len(log) - 1) |-> IF \E j \in 1..i : log[j].of = c THEN log[i + 1] ELSE log[i]]

\* A refusal by the handler, a serialization failure, a failed audit write, a
\* lost connection, a crash: nothing of the call remains.
Abort(c) ==
  /\ phase[c] # "idle"
  /\ log' = IF phase[c] = "audited" THEN LogWithout(c) ELSE log
  /\ missed' = [missed EXCEPT ![c] = {}]
  /\ readBy' = [readBy EXCEPT ![c] = {}]
  /\ Finish(c)
  /\ UNCHANGED <<rows, root, source>>

now == Len(log) + 1   \* ctx.now()

-----------------------------------------------------------------------------
(* Members *)

\* A live member is refused; a removed one is revived in place.
MemberAdd(c, u, role) ==
  /\ ~Live(u)
  /\ Perform(c, "workspace:admin",
       Write(u, [role |-> role, dead |-> 0], <<"member.add", u, role>>, {}, {}))

\* The owners are counted only when an owner is to go.
MemberRemove(c, u) ==
  /\ Live(u)
  /\ Owners # {u}
  /\ Perform(c, "workspace:admin",
       Write(u, [rows[u] EXCEPT !.dead = now], <<"member.remove", u, now>>,
             IF u \in Owners THEN Owners ELSE {}, {}))

MemberUpdateRole(c, u, role) ==
  /\ Live(u)
  /\ rows[u].role # role
  /\ Owners # {u}
  /\ Perform(c, "workspace:admin",
       Write(u, [rows[u] EXCEPT !.role = role], <<"member.update_role", u, role>>,
             IF u \in Owners THEN Owners ELSE {}, {}))

-----------------------------------------------------------------------------
(* Agents and tokens *)

NameTaken(n, self) == \E a \in Agents \ {self} : Live(a) /\ rows[a].name = n

\* An agent is anchored to a human: the caller, or the calling agent's owner.
AgentCreate(c, a, n) ==
  /\ rows[a] = NoRow
  /\ ~NameTaken(n, a)
  /\ phase[c] = "gated"
  /\ LET owner == HumanAnchor(c) IN
     Perform(c, "agent:create",
       Write(a, [owner |-> owner, name |-> n, dead |-> 0],
             <<"agent.create", a, owner, n>>, {}, {n}))

\* A rename to the name it has writes no row, and is audited all the same.
AgentUpdate(c, a, n) ==
  /\ Live(a)
  /\ IF rows[a].name = n
     THEN Perform(c, "agent:create", Echo(a, <<"agent.update", a, n>>))
     ELSE /\ ~NameTaken(n, a)
          /\ Perform(c, "agent:create",
               Write(a, [rows[a] EXCEPT !.name = n], <<"agent.update", a, n>>, {}, {n}))

\* Mutant: the row is updated without looking whether it is already revoked.
AgentRevokeAgain(c, a) ==
  /\ rows[a] # NoRow
  /\ Perform(c, "agent:revoke",
       Write(a, [rows[a] EXCEPT !.dead = now], <<"agent.revoke", a, now>>, {}, {}))

AgentRevoke(c, a) ==
  /\ Live(a)
  /\ Perform(c, "agent:revoke",
       Write(a, [rows[a] EXCEPT !.dead = now], <<"agent.revoke", a, now>>, {}, {}))

\* Mutant: the caller's own scopes do not bound what it mints.
TokenMintAmplifies(c, t, a, scopes) ==
  /\ rows[t] = NoRow
  /\ Live(a)
  /\ Perform(c, "agent:create",
       Write(t, [agent |-> a, scopes |-> scopes, dead |-> 0],
             <<"agent.token_mint", t, a, scopes>>, {a}, {}))

\* An agent mints at most the scopes it holds, a human any that are mintable.
TokenMint(c, t, a, scopes) ==
  /\ rows[t] = NoRow
  /\ Live(a)
  /\ caller[c].by \in Agents => scopes \subseteq caller[c].can
  /\ Perform(c, "agent:create",
       Write(t, [agent |-> a, scopes |-> scopes, dead |-> 0],
             <<"agent.token_mint", t, a, scopes>>, {a}, {}))

TokenRevoke(c, t) ==
  /\ Live(t)
  /\ Perform(c, "agent:revoke",
       Write(t, [rows[t] EXCEPT !.dead = now], <<"agent.token_revoke", t, now>>, {}, {}))

-----------------------------------------------------------------------------
Next == \E c \in Calls :
  \/ \E u \in Users : UserCalls(c, u) \/ MemberRemove(c, u)
  \/ \E u \in Users, r \in Roles : MemberAdd(c, u, r) \/ MemberUpdateRole(c, u, r)
  \/ \E a \in Agents, n \in Names : AgentCreate(c, a, n) \/ AgentUpdate(c, a, n)
  \/ \E a \in Agents : AgentRevoke(c, a)
  \/ \E t \in Tokens, a \in Agents, s \in Mintable : TokenMint(c, t, a, s)
  \/ \E t \in Tokens : AgentCalls(c, t) \/ TokenRevoke(c, t)
  \/ Audit(c) \/ Commit(c) \/ Abort(c)

Spec == Init /\ [][Next]_vars

-----------------------------------------------------------------------------
(* Replay *)

\* A patch of a row that is not there is dropped.
PatchRow(row, e) ==
  CASE row = NoRow -> NoRow
    [] row # NoRow /\ e[1] = "member.update_role" -> [row EXCEPT !.role = e[3]]
    [] row # NoRow /\ e[1] = "agent.update" -> [row EXCEPT !.name = e[3]]
    [] row # NoRow /\ e[1] \in {"member.remove", "agent.revoke", "agent.token_revoke"} ->
         [row EXCEPT !.dead = e[3]]

\* Mutant: the add of a member who was there before is replayed as a patch.
ReduceRowAddPatches(row, e) ==
  CASE e[1] = "member.add" /\ row = NoRow -> [role |-> e[3], dead |-> 0]
    [] e[1] = "member.add" /\ row # NoRow -> [row EXCEPT !.role = e[3]]
    [] e[1] = "agent.create" -> [owner |-> e[3], name |-> e[4], dead |-> 0]
    [] e[1] = "agent.token_mint" -> [agent |-> e[3], scopes |-> e[4], dead |-> 0]
    [] OTHER -> PatchRow(row, e)

\* What one audit effect makes of the row it is about: set it, or patch it.
ReduceRow(row, e) ==
  CASE e[1] = "member.add" -> [role |-> e[3], dead |-> 0]
    [] e[1] = "agent.create" -> [owner |-> e[3], name |-> e[4], dead |-> 0]
    [] e[1] = "agent.token_mint" -> [agent |-> e[3], scopes |-> e[4], dead |-> 0]
    [] OTHER -> PatchRow(row, e)

Reduce(state, e) == [state EXCEPT ![e[2]] = ReduceRow(state[e[2]], e)]

Genesis == [k \in Keys |-> IF k = Founder THEN [role |-> "owner", dead |-> 0] ELSE NoRow]

\* The rebuilt tables after each row of the log, of which those in S count.
Replay(entries, S) ==
  LET state[i \in 0..Len(entries)] ==
        IF i = 0 THEN Genesis
        ELSE IF i \in S THEN Reduce(state[i - 1], entries[i].effect) ELSE state[i - 1]
  IN state

Rebuilt(entries, S) == Replay(entries, S)[Len(entries)]

Committed == {i \in DOMAIN log : log[i].of = NoOne}
Wrote == {i \in Committed : ~log[i].echo}

-----------------------------------------------------------------------------
(* Properties *)

\* Rows, calls, transactions, audit rows and histories have their types; in
\* particular every agent is owned by a user, whoever created it.
TypeOK ==
  /\ DOMAIN rows = Keys
  /\ \A k \in Keys : rows[k] \in Rows(k) \cup {NoRow}
  /\ phase \in [Calls -> {"idle", "gated", "handled", "audited"}]
  /\ caller \in [Calls -> [by : Users \cup Agents \cup {NoOne},
                           via : Tokens \cup {NoOne}, can : SUBSET Scopes]]
  /\ DOMAIN work = Calls
  /\ \A c \in Calls : \/ work[c] = NoWork
                      \/ work[c] \in [key : Keys, row : Rows(work[c].key), effect : Effects,
                                     reads : SUBSET Keys, locks : SUBSET (Keys \cup Names)]
  /\ missed \in [Calls -> SUBSET (Keys \cup Names)]
  /\ readBy \in [Calls -> SUBSET Keys]
  /\ log \in Seq([of : Calls \cup {NoOne}, effect : Effects, echo : BOOLEAN])
  /\ root \in [Agents -> Users \cup {NoOne}]
  /\ source \in [Tokens -> Tokens \cup {NoOne}]

\* Whatever the owners do to each other, and however their transactions
\* overlap, the workspace keeps a live owner (LastOwnerError: the COUNT and the
\* UPDATE are two statements, each true of a snapshot).
WorkspaceHasOwner == Owners # {}

\* A revocation is final, and its first kill time is the record: no call, not
\* one that read the row before it was revoked, clears or overwrites it.
KillsAreFinal ==
  [][\A k \in Agents \cup Tokens :
       rows[k] # NoRow /\ rows[k].dead # 0 => rows'[k] = rows[k]]_vars

\* Replaying the audit log in the order of its ids, which is not the order of
\* the commits, rebuilds every row (effects that echo what is there left out).
LogRebuildsTables == Rebuilt(log, Wrote) = rows

\* The same of the whole log: a same-name rename re-emits its effect, "replay-
\* convergent" (packages/capabilities/src/agent/update.ts:101-105).
EchoesConverge == Rebuilt(log, Committed) = rows

\* Authority comes from a human: a credential that resolves belongs to an agent
\* that descends from a live member, and carries no scope that the token a
\* human minted at the start of its chain did not carry.
AuthorityHasHumanSource ==
  \A t \in Tokens : Resolves(t) =>
    /\ Live(root[rows[t].agent])
    /\ rows[t].scopes \subseteq rows[source[t]].scopes
=============================================================================
