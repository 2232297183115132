--------------------------- MODULE IdentityProofs ---------------------------
(***************************************************************************)
(* Proofs about module Identity.  Counting owners is sound under           *)
(* SERIALIZABLE for a reason that involves three transactions at most: of  *)
(* two overlapping calls that each take an owner away, the later has       *)
(* counted the earlier's owner; so a call that would leave nobody is a     *)
(* pivot by the time it commits, and is refused.                           *)
(*                                                                         *)
(* The log rebuilds the tables although ids are not in commit order: those *)
(* of the writes of one row are, and effects on different rows commute.    *)
(***************************************************************************)
EXTENDS Identity, WellFoundedInduction, TLAPS

\* A call has read and locked something only between its handler and its end.
Idle(c) == ~Pending(c) => work[c] = NoWork

\* Two calls in flight never hold one lock.
LocksDisjoint(c) == \A d \in Calls \ {c} : work[c].locks \cap work[d].locks = {}

\* A pending call holds the lock of the row it will write, and the row is as
\* the call's snapshot showed it: absent, or live, or a member's.
HoldsItsRow(c) ==
  Pending(c) => /\ work[c] # NoWork
                /\ work[c].key \in work[c].reads
                /\ work[c].locks # {} =>
                     /\ work[c].key \in work[c].locks
                     /\ \/ work[c].key \in Users
                        \/ rows[work[c].key] = NoRow
                        \/ Live(work[c].key)

\* Calls whose commit takes one of the live owners away.
Retires(c) ==
  /\ Pending(c)
  /\ work[c].locks # {}
  /\ work[c].key \in Owners
  /\ ~(work[c].row.dead = 0 /\ work[c].row.role = "owner")

\* Such a call has counted another owner, and those it counted are owners
\* still, unless one of their rows was committed since.
CountedOthers(c) ==
  Retires(c) => /\ work[c].reads \cap missed[c] = {} => work[c].reads \subseteq Owners
                /\ \E w \in work[c].reads : w # work[c].key

\* It leaves an owner behind, or it is a pivot and cannot commit.
LeavesOneOrPivot(c) ==
  Retires(c) => \/ \E w \in Owners : w # work[c].key
                \/ /\ work[c].reads \cap missed[c] # {}
                   /\ work[c].key \in readBy[c]

\* Of two such calls in flight the later has counted the earlier's owner.
OneCountedTheOther(c) ==
  \A d \in Calls \ {c} : Retires(c) /\ Retires(d) =>
    work[d].key \in work[c].reads \/ work[c].key \in work[d].reads

\* A credential in use was a row, and rows are never deleted.
CallerKnown(c) ==
  /\ caller[c].by \in Agents <=> caller[c].via \in Tokens
  /\ caller[c].by \in Agents =>
       /\ rows[caller[c].by] # NoRow
       /\ rows[caller[c].via] # NoRow
       /\ caller[c].can = rows[caller[c].via].scopes
  /\ phase[c] # "idle" => caller[c].by \in Users \cup Agents

\* What a pending call will write keeps the chain to a human.
WritesKeepSource(c) ==
  LET k == work[c].key IN
  Pending(c) /\ work[c].locks # {} =>
    /\ k \in Agents => work[c].row.owner = IF rows[k] = NoRow THEN HumanAnchor(c) ELSE rows[k].owner
    /\ k \in Tokens =>
         IF rows[k] = NoRow
         THEN caller[c].by \in Agents => work[c].row.scopes \subseteq caller[c].can
         ELSE work[c].row.scopes = rows[k].scopes

\* The owner of an agent is the human at the root of its chain; a token holds
\* at most the scopes of the token its chain begins with.
RowsHaveSource ==
  /\ \A a \in Agents : rows[a] # NoRow => rows[a].owner = root[a]
  /\ \A t \in Tokens : rows[t] # NoRow =>
       /\ source[t] \in Tokens
       /\ rows[source[t]] # NoRow
       /\ rows[t].scopes \subseteq rows[source[t]].scopes

CallInv(c) ==
  /\ Idle(c) /\ LocksDisjoint(c) /\ HoldsItsRow(c)
  /\ CountedOthers(c) /\ LeavesOneOrPivot(c) /\ OneCountedTheOther(c)
  /\ CallerKnown(c) /\ WritesKeepSource(c)

IInv ==
  /\ TypeOK
  /\ WorkspaceHasOwner
  /\ RowsHaveSource
  /\ \A c \in Calls : CallInv(c)

-----------------------------------------------------------------------------
(* The initial state *)

LEMMA InitInv == Init => IInv
<1> SUFFICES ASSUME Init PROVE IInv
  OBVIOUS
<1> DEFINE first == [role |-> "owner", dead |-> 0]
<1>a. first \in Rows(Founder) /\ first # NoRow /\ Founder \in Keys /\ Founder \in Users
  BY KeysAssumption, RowAssumption DEF Rows, MemberRows, Keys
<1>b. rows[Founder] = first
  BY <1>a DEF Init
<1>1. TypeOK
  <2>1. DOMAIN rows = Keys /\ \A k \in Keys : rows[k] \in Rows(k) \cup {NoRow}
    BY <1>a DEF Init
  <2>2. caller \in [Calls -> [by : Users \cup Agents \cup {NoOne},
                             via : Tokens \cup {NoOne}, can : SUBSET Scopes]]
    BY DEF Init, NoCaller
  <2>3. DOMAIN work = Calls /\ \A c \in Calls : work[c] = NoWork
    BY DEF Init
  <2>4. /\ phase \in [Calls -> {"idle", "gated", "handled", "audited"}]
        /\ missed \in [Calls -> SUBSET (Keys \cup Names)]
        /\ readBy \in [Calls -> SUBSET Keys]
        /\ root \in [Agents -> Users \cup {NoOne}]
        /\ source \in [Tokens -> Tokens \cup {NoOne}]
    BY DEF Init
  <2>5. log \in Seq([of : Calls \cup {NoOne}, effect : Effects, echo : BOOLEAN])
    BY DEF Init
  <2> QED
    BY <2>1, <2>2, <2>3, <2>4, <2>5 DEF TypeOK
<1>2. Founder \in Owners
  BY <1>a, <1>b DEF Owners, Live, LiveIn
<1>3. RowsHaveSource
  BY KeysAssumption DEF Init, RowsHaveSource, Keys
<1>4. ASSUME NEW c \in Calls PROVE CallInv(c)
  <2>1. ~Pending(c) /\ phase[c] = "idle" /\ work[c] = NoWork /\ caller[c] = NoCaller
    BY DEF Init, Pending
  <2>2. Idle(c) /\ HoldsItsRow(c) /\ CountedOthers(c) /\ LeavesOneOrPivot(c)
        /\ OneCountedTheOther(c) /\ WritesKeepSource(c)
    BY <2>1 DEF Idle, HoldsItsRow, CountedOthers, LeavesOneOrPivot, OneCountedTheOther,
                WritesKeepSource, Retires
  <2>3. LocksDisjoint(c)
    BY <2>1 DEF LocksDisjoint, NoWork
  <2>4. CallerKnown(c)
    BY <2>1, KeysAssumption DEF CallerKnown, NoCaller, Keys
  <2> QED
    BY <2>2, <2>3, <2>4 DEF CallInv
<1> QED
  BY <1>1, <1>2, <1>3, <1>4 DEF IInv, WorkspaceHasOwner

-----------------------------------------------------------------------------
(* A credential is resolved *)

LEMMA EnterStep ==
  ASSUME IInv, NEW c \in Calls, NEW who, Enter(c, who),
         who \in [by : Users \cup Agents, via : Tokens \cup {NoOne}, can : SUBSET Scopes],
         who.by \in Agents <=> who.via \in Tokens,
         who.by \in Agents => /\ rows[who.by] # NoRow
                              /\ rows[who.via] # NoRow
                              /\ who.can = rows[who.via].scopes
  PROVE  IInv'
<1> USE DEF Enter
<1>0. TypeOK
  BY DEF IInv
<1>1. TypeOK'
  BY <1>0 DEF TypeOK
<1>2. WorkspaceHasOwner' /\ RowsHaveSource'
  BY DEF IInv, WorkspaceHasOwner, Owners, Live, LiveIn, RowsHaveSource
<1>3. ASSUME NEW d \in Calls PROVE CallInv(d)'
  <2>0. CallInv(d)
    BY DEF IInv
  <2>1. \A e \in Calls : Pending(e)' <=> Pending(e)
    BY <1>0 DEF Pending, TypeOK
  <2>2. \A e \in Calls : Retires(e)' <=> Retires(e)
    BY <2>1 DEF Retires, Owners, Live, LiveIn
  <2>3. Idle(d)' /\ LocksDisjoint(d)' /\ HoldsItsRow(d)'
    BY <2>0, <2>1 DEF CallInv, Idle, LocksDisjoint, HoldsItsRow, Live, LiveIn
  <2>4. CountedOthers(d)' /\ LeavesOneOrPivot(d)' /\ OneCountedTheOther(d)'
    BY <2>0, <2>2 DEF CallInv, CountedOthers, LeavesOneOrPivot, OneCountedTheOther,
                      Owners, Live, LiveIn
  <2>5. caller'[d] = IF d = c THEN who ELSE caller[d]
    BY <1>0 DEF TypeOK
  <2>6. CallerKnown(d)'
    BY <1>0, <2>0, <2>5 DEF CallInv, CallerKnown, TypeOK
  <2>7. WritesKeepSource(d)'
    BY <2>0, <2>1, <2>5 DEF CallInv, WritesKeepSource, HumanAnchor, Pending
  <2> QED
    BY <2>3, <2>4, <2>6, <2>7 DEF CallInv
<1> QED
  BY <1>1, <1>2, <1>3 DEF IInv

-----------------------------------------------------------------------------
(* A handler runs *)

\* What every handler makes sure of before it writes.
Fits(c, w) ==
  /\ w \in [key : Keys, row : Rows(w.key), effect : Effects,
            reads : SUBSET Keys, locks : SUBSET (Keys \cup Names)]
  /\ w.key \in w.reads
  /\ w.locks # {} => /\ w.key \in w.locks
                     /\ w.key \in Users \/ rows[w.key] = NoRow \/ Live(w.key)
  /\ w.locks # {} /\ w.key \in Owners /\ ~(w.row.dead = 0 /\ w.row.role = "owner") =>
       /\ w.reads = Owners
       /\ \E o \in Owners : o # w.key
  /\ w.locks # {} =>
       /\ w.key \in Agents =>
            w.row.owner = IF rows[w.key] = NoRow THEN HumanAnchor(c) ELSE rows[w.key].owner
       /\ w.key \in Tokens =>
            IF rows[w.key] = NoRow
            THEN caller[c].by \in Agents => w.row.scopes \subseteq caller[c].can
            ELSE w.row.scopes = rows[w.key].scopes

LEMMA PerformStep ==
  ASSUME IInv, NEW c \in Calls, NEW scope, NEW w, Perform(c, scope, w), Fits(c, w)
  PROVE  IInv'
<1> USE DEF Perform
<1>0. TypeOK
  BY DEF IInv
<1>a. \A e \in Calls : work'[e] = IF e = c THEN w ELSE work[e]
  BY <1>0 DEF TypeOK
<1>b. ~Pending(c) /\ work[c] = NoWork
  BY DEF IInv, CallInv, Idle, Pending
<1>c. \A e \in Calls : Pending(e)' <=> (e = c \/ Pending(e))
  BY <1>0 DEF Pending, TypeOK
<1>1. TypeOK'
  <2>1. \A e \in Calls : \/ work'[e] = NoWork
                         \/ work'[e] \in [key : Keys, row : Rows(work'[e].key), effect : Effects,
                                     reads : SUBSET Keys, locks : SUBSET (Keys \cup Names)]
    BY <1>0, <1>a DEF TypeOK, Fits
  <2> QED
    BY <1>0, <2>1 DEF TypeOK
<1>2. WorkspaceHasOwner' /\ RowsHaveSource' /\ Owners' = Owners
  BY DEF IInv, WorkspaceHasOwner, Owners, Live, LiveIn, RowsHaveSource
<1>d. \A e \in Calls \ {c} : Retires(e)' <=> Retires(e)
  BY <1>a, <1>c, <1>2 DEF Retires
<1>e. Retires(c)' => w.reads = Owners /\ w.key \in Owners /\ \E o \in Owners : o # w.key
  BY <1>a, <1>2 DEF Retires, Fits
<1>3. ASSUME NEW d \in Calls PROVE CallInv(d)'
  <2>0. CallInv(d)
    BY DEF IInv
  <2>1. Idle(d)' /\ HoldsItsRow(d)'
    BY <2>0, <1>a, <1>c, KeysAssumption
    DEF CallInv, Idle, HoldsItsRow, Live, LiveIn, Fits, NoWork
  <2>2. LocksDisjoint(d)'
    BY <2>0, <1>a DEF CallInv, LocksDisjoint
  <2>3. CountedOthers(d)'
    BY <2>0, <1>a, <1>d, <1>e, <1>2 DEF CallInv, CountedOthers
  <2>4. LeavesOneOrPivot(d)'
    BY <2>0, <1>a, <1>d, <1>e, <1>2 DEF CallInv, LeavesOneOrPivot
  <2>5. OneCountedTheOther(d)'
    <3>1. \A e \in Calls : Retires(e)' => work'[e].key \in Owners
      BY <1>2 DEF Retires
    <3> QED
      BY <2>0, <1>a, <1>d, <1>e, <3>1 DEF CallInv, OneCountedTheOther
  <2>6. CallerKnown(d)'
    BY <1>0, <2>0 DEF CallInv, CallerKnown, TypeOK
  <2>7. WritesKeepSource(d)'
    BY <2>0, <1>a, <1>c DEF CallInv, WritesKeepSource, HumanAnchor, Fits
  <2> QED
    BY <2>1, <2>2, <2>3, <2>4, <2>5, <2>6, <2>7 DEF CallInv
<1> QED
  BY <1>1, <1>2, <1>3 DEF IInv

-----------------------------------------------------------------------------
(* The handlers *)

\* The facts about the state that every handler's proof uses.
LEMMA HandlerFacts ==
  ASSUME IInv
  PROVE  /\ \A k \in Keys : rows[k] = NoRow \/ rows[k] \in Rows(k)
         /\ now \in Nat
         /\ Users \subseteq Keys /\ Agents \subseteq Keys /\ Tokens \subseteq Keys
         /\ Owners \subseteq Users
         /\ \A c \in Calls : CallerKnown(c) /\ caller[c].can \in SUBSET Scopes
<1> USE DEF IInv, TypeOK
<1>1. \A k \in Keys : rows[k] = NoRow \/ rows[k] \in Rows(k)
  OBVIOUS
<1>2. now \in Nat
  BY DEF now
<1>3. Users \subseteq Keys /\ Agents \subseteq Keys /\ Tokens \subseteq Keys
  BY DEF Keys
<1>4. Owners \subseteq Users
  BY DEF Owners
<1>5. \A c \in Calls : CallerKnown(c) /\ caller[c].can \in SUBSET Scopes
  BY DEF CallInv
<1> QED
  BY <1>1, <1>2, <1>3, <1>4, <1>5

LEMMA MemberStep ==
  ASSUME IInv, NEW c \in Calls, NEW u \in Users, NEW r \in Roles,
         MemberAdd(c, u, r) \/ MemberRemove(c, u) \/ MemberUpdateRole(c, u, r)
  PROVE  IInv'
<1>0. /\ u \in Keys /\ u \notin Agents /\ u \notin Tokens
      /\ Rows(u) = MemberRows
      /\ rows[u] = NoRow \/ rows[u] \in MemberRows
      /\ now \in Nat
      /\ Owners \subseteq Keys
  BY HandlerFacts, KeysAssumption DEF Rows, Keys
<1>1. CASE MemberAdd(c, u, r)
  <2> DEFINE w == Write(u, [role |-> r, dead |-> 0], <<"member.add", u, r>>, {}, {})
  <2>1. w.effect \in Effects
    BY DEF Write, Effects
  <2>2. u \notin Owners
    BY <1>1 DEF MemberAdd, Owners
  <2>3. Fits(c, w)
    BY <1>0, <2>1, <2>2 DEF Fits, Write, MemberRows
  <2> QED
    BY <1>1, <2>3, PerformStep DEF MemberAdd
<1>2. CASE MemberRemove(c, u)
  <2> DEFINE w == Write(u, [rows[u] EXCEPT !.dead = now], <<"member.remove", u, now>>,
                        IF u \in Owners THEN Owners ELSE {}, {})
  <2>1. w.effect \in Effects
    BY <1>0 DEF Write, Effects
  <2>2. w.row \in MemberRows
    BY <1>0, <1>2 DEF Write, MemberRows, MemberRemove, Live, LiveIn
  <2>3. Fits(c, w)
    BY <1>0, <1>2, <2>1, <2>2 DEF Fits, Write, MemberRemove
  <2> QED
    BY <1>2, <2>3, PerformStep DEF MemberRemove
<1>3. CASE MemberUpdateRole(c, u, r)
  <2> DEFINE w == Write(u, [rows[u] EXCEPT !.role = r], <<"member.update_role", u, r>>,
                        IF u \in Owners THEN Owners ELSE {}, {})
  <2>1. w.effect \in Effects
    BY DEF Write, Effects
  <2>2. w.row \in MemberRows
    BY <1>0, <1>3 DEF Write, MemberRows, MemberUpdateRole, Live, LiveIn
  <2>3. Fits(c, w)
    BY <1>0, <1>3, <2>1, <2>2 DEF Fits, Write, MemberUpdateRole
  <2> QED
    BY <1>3, <2>3, PerformStep DEF MemberUpdateRole
<1> QED
  BY <1>1, <1>2, <1>3

LEMMA AgentStep ==
  ASSUME IInv, NEW c \in Calls, NEW a \in Agents,
         \/ \E n \in Names : AgentCreate(c, a, n) \/ AgentUpdate(c, a, n)
         \/ AgentRevoke(c, a)
  PROVE  IInv'
<1>0. /\ a \in Keys /\ a \notin Users /\ a \notin Tokens
      /\ Rows(a) = AgentRows
      /\ rows[a] = NoRow \/ rows[a] \in AgentRows
      /\ now \in Nat
      /\ a \notin Owners
  BY HandlerFacts, KeysAssumption DEF Rows, Keys
<1>1. ASSUME NEW n \in Names, AgentCreate(c, a, n) PROVE IInv'
  <2> DEFINE owner == HumanAnchor(c)
             w == Write(a, [owner |-> owner, name |-> n, dead |-> 0],
                        <<"agent.create", a, owner, n>>, {}, {n})
  <2>1. owner \in Users
    <3>1. CallerKnown(c) /\ phase[c] = "gated"
      BY <1>1, HandlerFacts DEF AgentCreate
    <3>2. CASE caller[c].by \in Users
      BY <3>2 DEF HumanAnchor
    <3>3. CASE caller[c].by \in Agents
      <4>1. rows[caller[c].by] \in AgentRows
        BY <3>1, <3>3, HandlerFacts, KeysAssumption DEF CallerKnown, Rows
      <4> QED
        BY <3>3, <4>1, KeysAssumption DEF HumanAnchor, AgentRows
    <3> QED
      BY <3>1, <3>2, <3>3 DEF CallerKnown
  <2>2. w.effect \in Effects
    BY <2>1 DEF Write, Effects
  <2>3. Fits(c, w)
    BY <1>0, <1>1, <2>1, <2>2 DEF Fits, Write, AgentCreate, AgentRows
  <2> QED
    BY <1>1, <2>3, PerformStep DEF AgentCreate
<1>2. ASSUME NEW n \in Names, AgentUpdate(c, a, n), rows[a].name = n PROVE IInv'
  <2> DEFINE w == Echo(a, <<"agent.update", a, n>>)
  <2>1. w.effect \in Effects
    BY DEF Echo, Effects
  <2>2. Fits(c, w)
    BY <1>0, <1>2, <2>1 DEF Fits, Echo, AgentUpdate, Live, LiveIn
  <2> QED
    BY <1>2, <2>2, PerformStep DEF AgentUpdate
<1>3. ASSUME NEW n \in Names, AgentUpdate(c, a, n), rows[a].name # n PROVE IInv'
  <2> DEFINE w == Write(a, [rows[a] EXCEPT !.name = n], <<"agent.update", a, n>>, {}, {n})
  <2>1. w.effect \in Effects
    BY DEF Write, Effects
  <2>2. w.row \in AgentRows /\ w.row.owner = rows[a].owner /\ Live(a)
    BY <1>0, <1>3 DEF Write, AgentRows, AgentUpdate, Live, LiveIn
  <2>3. Fits(c, w)
    BY <1>0, <2>1, <2>2 DEF Fits, Write, Live, LiveIn
  <2> QED
    BY <1>3, <2>3, PerformStep DEF AgentUpdate
<1>4. CASE AgentRevoke(c, a)
  <2> DEFINE w == Write(a, [rows[a] EXCEPT !.dead = now], <<"agent.revoke", a, now>>, {}, {})
  <2>1. w.effect \in Effects
    BY <1>0 DEF Write, Effects
  <2>2. w.row \in AgentRows /\ w.row.owner = rows[a].owner /\ Live(a)
    BY <1>0, <1>4 DEF Write, AgentRows, AgentRevoke, Live, LiveIn
  <2>3. Fits(c, w)
    BY <1>0, <2>1, <2>2 DEF Fits, Write, Live, LiveIn
  <2> QED
    BY <1>4, <2>3, PerformStep DEF AgentRevoke
<1> QED
  BY <1>1, <1>2, <1>3, <1>4

LEMMA TokenStep ==
  ASSUME IInv, NEW c \in Calls, NEW t \in Tokens,
         \/ \E a \in Agents, s \in Mintable : TokenMint(c, t, a, s)
         \/ TokenRevoke(c, t)
  PROVE  IInv'
<1>0. /\ t \in Keys /\ t \notin Users /\ t \notin Agents
      /\ Rows(t) = TokenRows
      /\ rows[t] = NoRow \/ rows[t] \in TokenRows
      /\ now \in Nat
      /\ t \notin Owners
      /\ Agents \subseteq Keys
  BY HandlerFacts, KeysAssumption DEF Rows, Keys
<1>1. ASSUME NEW a \in Agents, NEW s \in Mintable, TokenMint(c, t, a, s)
      PROVE  IInv'
  <2> DEFINE w == Write(t, [agent |-> a, scopes |-> s, dead |-> 0],
                        <<"agent.token_mint", t, a, s>>, {a}, {})
  <2>1. s \in SUBSET Scopes
    BY KeysAssumption
  <2>2. w.effect \in Effects
    BY <2>1 DEF Write, Effects
  <2>3. Fits(c, w)
    BY <1>0, <1>1, <2>1, <2>2 DEF Fits, Write, TokenMint, TokenRows
  <2> QED
    BY <1>1, <2>3, PerformStep DEF TokenMint
<1>2. CASE TokenRevoke(c, t)
  <2> DEFINE w == Write(t, [rows[t] EXCEPT !.dead = now], <<"agent.token_revoke", t, now>>, {}, {})
  <2>1. w.effect \in Effects
    BY <1>0 DEF Write, Effects
  <2>2. w.row \in TokenRows /\ w.row.scopes = rows[t].scopes /\ Live(t)
    BY <1>0, <1>2 DEF Write, TokenRows, TokenRevoke, Live, LiveIn
  <2>3. Fits(c, w)
    BY <1>0, <2>1, <2>2 DEF Fits, Write, Live, LiveIn
  <2> QED
    BY <1>2, <2>3, PerformStep DEF TokenRevoke
<1> QED
  BY <1>1, <1>2

LEMMA CallerStep ==
  ASSUME IInv, NEW c \in Calls,
         (\E u \in Users : UserCalls(c, u)) \/ (\E t \in Tokens : AgentCalls(c, t))
  PROVE  IInv'
<1>1. ASSUME NEW u \in Users, UserCalls(c, u) PROVE IInv'
  <2> DEFINE who == [by |-> u, via |-> NoOne, can |-> ROLE_SCOPES[rows[u].role]]
  <2>1. rows[u] \in MemberRows
    BY <1>1, HandlerFacts DEF UserCalls, Live, LiveIn, Rows
  <2>2. who.can \in SUBSET Scopes
    BY <2>1 DEF ROLE_SCOPES, MemberRows
  <2>3. u \notin Agents /\ NoOne \notin Tokens
    BY KeysAssumption DEF Keys
  <2> QED
    BY <1>1, <2>2, <2>3, EnterStep DEF UserCalls
<1>2. ASSUME NEW t \in Tokens, AgentCalls(c, t) PROVE IInv'
  <2> DEFINE who == [by |-> rows[t].agent, via |-> t, can |-> rows[t].scopes]
  <2>1. rows[t] \in TokenRows /\ rows[t] # NoRow /\ rows[rows[t].agent] # NoRow
    BY <1>2, HandlerFacts, KeysAssumption DEF AgentCalls, Resolves, Live, LiveIn, Rows
  <2> QED
    BY <1>2, <2>1, EnterStep DEF AgentCalls, TokenRows
<1> QED
  BY <1>1, <1>2

-----------------------------------------------------------------------------
(* The audit row, and the ways a call ends *)

LEMMA AuditStep ==
  ASSUME IInv, NEW c \in Calls, Audit(c)
  PROVE  IInv'
<1> USE DEF Audit
<1>0. TypeOK
  BY DEF IInv
<1>a. \A e \in Calls : (Pending(e)' <=> Pending(e)) /\ (phase'[e] # "idle" => phase[e] # "idle")
  BY <1>0 DEF Pending, TypeOK
<1>1. TypeOK'
  <2>1. work[c] # NoWork
    <3>1. Pending(c) /\ HoldsItsRow(c)
      BY DEF Pending, IInv, CallInv
    <3> QED
      BY <3>1 DEF HoldsItsRow
  <2>2. work[c].effect \in Effects
    BY <1>0, <2>1 DEF TypeOK
  <2>3. log' \in Seq([of : Calls \cup {NoOne}, effect : Effects, echo : BOOLEAN])
    BY <1>0, <2>2 DEF TypeOK
  <2>4. phase' \in [Calls -> {"idle", "gated", "handled", "audited"}]
    BY <1>0 DEF TypeOK
  <2> QED
    BY <1>0, <2>3, <2>4 DEF TypeOK
<1>2. WorkspaceHasOwner' /\ RowsHaveSource' /\ Owners' = Owners
  BY DEF IInv, WorkspaceHasOwner, Owners, Live, LiveIn, RowsHaveSource
<1>b. \A e \in Calls : Retires(e)' <=> Retires(e)
  BY <1>a, <1>2 DEF Retires
<1>3. ASSUME NEW d \in Calls PROVE CallInv(d)'
  <2>0. CallInv(d)
    BY DEF IInv
  <2>1. Idle(d)' /\ LocksDisjoint(d)' /\ HoldsItsRow(d)'
    BY <2>0, <1>a DEF CallInv, Idle, LocksDisjoint, HoldsItsRow, Live, LiveIn
  <2>2. CountedOthers(d)' /\ LeavesOneOrPivot(d)' /\ OneCountedTheOther(d)'
    BY <2>0, <1>2, <1>b DEF CallInv, CountedOthers, LeavesOneOrPivot, OneCountedTheOther
  <2>3. CallerKnown(d)' /\ WritesKeepSource(d)'
    BY <2>0, <1>a DEF CallInv, CallerKnown, WritesKeepSource, HumanAnchor
  <2> QED
    BY <2>1, <2>2, <2>3 DEF CallInv
<1> QED
  BY <1>1, <1>2, <1>3 DEF IInv

\* What the end of a call does to calls, whichever end it is.
LEMMA Finished ==
  ASSUME TypeOK, NEW c \in Calls, Finish(c)
  PROVE  /\ phase' \in [Calls -> {"idle", "gated", "handled", "audited"}]
         /\ caller' \in [Calls -> [by : Users \cup Agents \cup {NoOne},
                                   via : Tokens \cup {NoOne}, can : SUBSET Scopes]]
         /\ DOMAIN work' = Calls
         /\ \A d \in Calls :
              /\ work'[d] = IF d = c THEN NoWork ELSE work[d]
              /\ caller'[d] = IF d = c THEN NoCaller ELSE caller[d]
              /\ Pending(d)' <=> d # c /\ Pending(d)
              /\ phase'[d] # "idle" => d # c /\ phase[d] # "idle"
<1>1. NoCaller \in [by : Users \cup Agents \cup {NoOne},
                    via : Tokens \cup {NoOne}, can : SUBSET Scopes]
  BY DEF NoCaller
<1> QED
  BY <1>1 DEF TypeOK, Finish, Pending

LEMMA FunctionIsSeq ==
  ASSUME NEW S, NEW n \in Nat, NEW f \in [1..n -> S]
  PROVE  f \in Seq(S)
OBVIOUS

LEMMA ElementOfSeq ==
  ASSUME NEW S, NEW s \in Seq(S), NEW i \in 1..Len(s)
  PROVE  s[i] \in S
OBVIOUS

LEMMA AbortStep ==
  ASSUME IInv, NEW c \in Calls, Abort(c)
  PROVE  IInv'
<1>0. TypeOK /\ Finish(c)
  BY DEF IInv, Abort
<1> USE Finished, <1>0
<1>1. TypeOK'
  <2> DEFINE Row == [of : Calls \cup {NoOne}, effect : Effects, echo : BOOLEAN]
  <2>1. log \in Seq(Row) /\ Len(log) \in Nat
    BY DEF TypeOK
  <2> HIDE DEF Row
  <2>2. LogWithout(c) \in Seq(Row)
    <3> DEFINE n == IF Len(log) = 0 THEN 0 ELSE Len(log) - 1
    <3>1. n \in Nat /\ 1..(Len(log) - 1) = 1..n
      BY <2>1
    <3>2. \A i \in 1..n : log[i] \in Row /\ log[i + 1] \in Row
      BY <2>1
    <3>3. LogWithout(c) \in [1..n -> Row]
      BY <3>1, <3>2 DEF LogWithout
    <3> HIDE DEF n
    <3> QED
      BY <3>1, <3>3, FunctionIsSeq
  <2>3. log' \in Seq(Row)
    BY <2>1, <2>2 DEF Abort
  <2>4. missed' \in [Calls -> SUBSET (Keys \cup Names)] /\ readBy' \in [Calls -> SUBSET Keys]
    BY DEF TypeOK, Abort
  <2>5. \A d \in Calls : \/ work'[d] = NoWork
                         \/ work'[d] \in [key : Keys, row : Rows(work'[d].key), effect : Effects,
                                     reads : SUBSET Keys, locks : SUBSET (Keys \cup Names)]
    BY DEF TypeOK
  <2>6. rows' = rows /\ root' = root /\ source' = source
    BY DEF Abort
  <2> QED
    BY <2>3, <2>4, <2>5, <2>6 DEF TypeOK, Row
<1>2. WorkspaceHasOwner' /\ RowsHaveSource' /\ Owners' = Owners
  BY DEF Abort, IInv, WorkspaceHasOwner, Owners, Live, LiveIn, RowsHaveSource
<1>a. \A e \in Calls : Retires(e)' <=> e # c /\ Retires(e)
  BY <1>2 DEF Retires
<1>3. ASSUME NEW d \in Calls PROVE CallInv(d)'
  <2>0. CallInv(d) /\ UNCHANGED rows
    BY DEF IInv, Abort
  <2>1. Idle(d)' /\ HoldsItsRow(d)'
    BY <2>0 DEF CallInv, Idle, HoldsItsRow, Live, LiveIn
  <2>2. LocksDisjoint(d)'
    BY <2>0 DEF CallInv, LocksDisjoint, NoWork
  <2>3. d # c => missed'[d] = missed[d] /\ readBy'[d] = readBy[d]
    BY DEF Abort, TypeOK
  <2>4. CountedOthers(d)' /\ LeavesOneOrPivot(d)' /\ OneCountedTheOther(d)'
    BY <2>0, <2>3, <1>2, <1>a DEF CallInv, CountedOthers, LeavesOneOrPivot, OneCountedTheOther
  <2>5. CallerKnown(d)'
    BY <2>0, KeysAssumption DEF CallInv, CallerKnown, NoCaller, Keys
  <2>6. WritesKeepSource(d)'
    BY <2>0 DEF CallInv, WritesKeepSource, HumanAnchor
  <2> QED
    BY <2>1, <2>2, <2>4, <2>5, <2>6 DEF CallInv
<1> QED
  BY <1>1, <1>2, <1>3 DEF IInv

-----------------------------------------------------------------------------
(* The commit *)

\* What a commit leaves of the rows and of the transactions around it.
LEMMA Committing ==
  ASSUME IInv, NEW c \in Calls, Commit(c)
  PROVE  /\ TypeOK /\ Finish(c) /\ Serializable(c) /\ Pending(c)
         /\ work[c] \in [key : Keys, row : Rows(work[c].key), effect : Effects,
                         reads : SUBSET Keys, locks : SUBSET (Keys \cup Names)]
         /\ \A k \in Keys : rows'[k] = IF work[c].locks # {} /\ k = work[c].key
                                       THEN work[c].row ELSE rows[k]
         /\ DOMAIN rows' = Keys
         /\ \A d \in Calls \ {c} : Pending(d) =>
              /\ missed'[d] = missed[d] \cup work[c].locks
              /\ readBy'[d] = readBy[d] \cup work[c].reads
              /\ work[c].locks # {} /\ work[d].locks # {} => work[d].key # work[c].key
<1>1. TypeOK /\ Finish(c) /\ Serializable(c) /\ Pending(c) /\ HoldsItsRow(c)
  BY DEF IInv, CallInv, Commit, Pending
<1>2. work[c] \in [key : Keys, row : Rows(work[c].key), effect : Effects,
                   reads : SUBSET Keys, locks : SUBSET (Keys \cup Names)]
  BY <1>1 DEF TypeOK, HoldsItsRow
<1>3. /\ DOMAIN rows' = Keys
      /\ \A k \in Keys : rows'[k] = IF work[c].locks # {} /\ k = work[c].key
                                    THEN work[c].row ELSE rows[k]
  BY <1>1, <1>2 DEF TypeOK, Commit
<1>4. ASSUME NEW d \in Calls \ {c}, Pending(d)
      PROVE  /\ missed'[d] = missed[d] \cup work[c].locks
             /\ readBy'[d] = readBy[d] \cup work[c].reads
             /\ work[c].locks # {} /\ work[d].locks # {} => work[d].key # work[c].key
  <2>1. HoldsItsRow(d) /\ LocksDisjoint(c)
    BY DEF IInv, CallInv
  <2> QED
    BY <1>1, <1>4, <2>1 DEF Commit, HoldsItsRow, LocksDisjoint
<1> QED
  BY <1>1, <1>2, <1>3, <1>4

\* Rows stay, and keep their owner and their scopes.
LEMMA RowsLast ==
  ASSUME IInv, NEW c \in Calls, Commit(c)
  PROVE  /\ \A k \in Keys : rows[k] # NoRow => rows'[k] # NoRow
         /\ \A a \in Agents : rows[a] # NoRow => rows'[a].owner = rows[a].owner
         /\ \A t \in Tokens : rows[t] # NoRow => rows'[t].scopes = rows[t].scopes
<1>1. WritesKeepSource(c) /\ Agents \subseteq Keys /\ Tokens \subseteq Keys
  BY DEF IInv, CallInv, Keys
<1>2. ASSUME NEW k \in Keys, rows[k] # NoRow PROVE rows'[k] # NoRow
  BY <1>2, Committing, RowAssumption
<1>3. \A a \in Agents : rows[a] # NoRow => rows'[a].owner = rows[a].owner
  BY <1>1, Committing DEF WritesKeepSource
<1>4. \A t \in Tokens : rows[t] # NoRow => rows'[t].scopes = rows[t].scopes
  BY <1>1, Committing DEF WritesKeepSource
<1> QED
  BY <1>2, <1>3, <1>4

\* Who the owners are after a commit.
LEMMA OwnersAfter ==
  ASSUME IInv, NEW c \in Calls, Commit(c)
  PROVE  /\ \A u \in Owners : u \in Owners' \/ (Retires(c) /\ u = work[c].key)
         /\ \A d \in Calls : Retires(d)' => d # c /\ Retires(d)
         /\ Owners \subseteq Keys
<1>0. Users \subseteq Keys
  BY DEF Keys
<1>1. ASSUME NEW u \in Owners PROVE u \in Owners' \/ (Retires(c) /\ u = work[c].key)
  <2>1. CASE work[c].locks # {} /\ u = work[c].key
    <3>1. work[c].row # NoRow
      BY Committing, RowAssumption
    <3>2. rows'[u] = work[c].row
      BY <1>0, <2>1, Committing DEF Owners
    <3> QED
      BY <2>1, <3>1, <3>2, Committing DEF Retires, Owners, Live, LiveIn
  <2>2. CASE ~(work[c].locks # {} /\ u = work[c].key)
    BY <1>0, <2>2, Committing DEF Owners, Live, LiveIn
  <2> QED
    BY <2>1, <2>2
<1>2. ASSUME NEW d \in Calls, Retires(d)' PROVE d # c /\ Retires(d)
  <2>1. d # c /\ work'[d] = work[d] /\ Pending(d)
    BY <1>2, Committing, Finished DEF Retires
  <2>2. rows'[work[d].key] = rows[work[d].key]
    BY <1>0, <1>2, <2>1, Committing DEF Retires, Owners
  <2> QED
    BY <1>2, <2>1, <2>2 DEF Retires, Owners, Live, LiveIn
<1> QED
  BY <1>0, <1>1, <1>2 DEF Owners

\* The argument for the last owner: whoever commits leaves an owner behind, and
\* leaves every other call that retires one with another owner or as a pivot.
LEMMA CommitLeavesOwner ==
  ASSUME IInv, NEW c \in Calls, Commit(c)
  PROVE  WorkspaceHasOwner'
<1>1. CASE Retires(c)
  <2>1. LeavesOneOrPivot(c) /\ HoldsItsRow(c)
    BY DEF IInv, CallInv
  <2>2. PICK w \in Owners : w # work[c].key
    <3>1. CASE work[c].reads \cap missed[c] # {} /\ work[c].key \in readBy[c]
      <4>1. work[c].key \in work[c].locks \cap ReadAround(c)
        BY <1>1, <2>1, <3>1 DEF HoldsItsRow, Retires, ReadAround
      <4> QED
        BY <3>1, <4>1, Committing DEF Serializable
    <3> QED
      BY <1>1, <2>1, <3>1 DEF LeavesOneOrPivot
  <2> QED
    BY <2>2, OwnersAfter DEF WorkspaceHasOwner
<1>2. CASE ~Retires(c)
  BY <1>2, OwnersAfter DEF WorkspaceHasOwner, IInv
<1> QED
  BY <1>1, <1>2

LEMMA CommitLeavesPivots ==
  ASSUME IInv, NEW c \in Calls, Commit(c), NEW d \in Calls
  PROVE  LeavesOneOrPivot(d)'
<1> SUFFICES ASSUME Retires(d)', ~ \E w \in Owners' : w # work'[d].key
             PROVE  work'[d].reads \cap missed'[d] # {} /\ work'[d].key \in readBy'[d]
  BY DEF LeavesOneOrPivot
<1>1. d # c /\ Retires(d) /\ work'[d] = work[d] /\ Pending(d)
  BY OwnersAfter, Committing, Finished DEF Retires
<1>2. /\ missed'[d] = missed[d] \cup work[c].locks
      /\ readBy'[d] = readBy[d] \cup work[c].reads
  BY <1>1, Committing
<1> DEFINE u == work[d].key
           v == work[c].key
<1>3. CASE \A w \in Owners : w = u
  BY <1>1, <1>2, <1>3 DEF IInv, CallInv, LeavesOneOrPivot
<1>4. CASE \E w \in Owners : w # u
  <2>1. Retires(c) /\ v \in work[c].locks /\ \A w \in Owners : w = u \/ w = v
    <3>1. \A w \in Owners : w = u \/ (Retires(c) /\ w = v)
      BY <1>1, OwnersAfter
    <3>2. Retires(c)
      BY <1>4, <3>1
    <3> QED
      BY <3>1, <3>2 DEF IInv, CallInv, HoldsItsRow, Retires
  <2>2. CountedOthers(c) /\ CountedOthers(d) /\ OneCountedTheOther(c)
    BY DEF IInv, CallInv
  <2>3. work[d].reads \cap missed[d] # {} \/ v \in work[d].reads
    BY <1>1, <2>1, <2>2 DEF CountedOthers
  <2>4. u \in work[c].reads
    <3>1. CASE work[c].reads \cap missed[c] = {}
      BY <2>1, <2>2, <3>1 DEF CountedOthers
    <3>2. CASE work[c].reads \cap missed[c] # {}
      <4>1. work[c].locks \cap ReadAround(c) = {}
        BY <3>2, Committing DEF Serializable
      <4>2. v \notin work[d].reads
        BY <1>1, <2>1, <4>1 DEF ReadAround
      <4> QED
        BY <1>1, <2>1, <2>2, <4>2 DEF OneCountedTheOther
    <3> QED
      BY <3>1, <3>2
  <2>5. work[d].reads \cap missed'[d] # {}
    BY <1>2, <2>1, <2>3
  <2> QED
    BY <1>1, <1>2, <2>4, <2>5
<1> QED
  BY <1>3, <1>4

LEMMA CommitKeepsCounts ==
  ASSUME IInv, NEW c \in Calls, Commit(c), NEW d \in Calls
  PROVE  CountedOthers(d)'
<1> SUFFICES ASSUME Retires(d)'
             PROVE  /\ work'[d].reads \cap missed'[d] = {} => work'[d].reads \subseteq Owners'
                    /\ \E w \in work'[d].reads : w # work'[d].key
  BY DEF CountedOthers
<1>1. d # c /\ Retires(d) /\ work'[d] = work[d] /\ Pending(d)
  BY OwnersAfter, Committing, Finished DEF Retires
<1>2. missed'[d] = missed[d] \cup work[c].locks
  BY <1>1, Committing
<1>3. CountedOthers(d)
  BY DEF IInv, CallInv
<1>4. ASSUME work[d].reads \cap missed'[d] = {} PROVE work[d].reads \subseteq Owners'
  <2>1. work[d].reads \subseteq Owners
    BY <1>1, <1>2, <1>3, <1>4 DEF CountedOthers
  <2>2. Retires(c) => work[c].key \in work[c].locks
    BY DEF IInv, CallInv, HoldsItsRow, Retires
  <2> QED
    BY <1>2, <1>4, <2>1, <2>2, OwnersAfter
<1> QED
  BY <1>1, <1>3, <1>4 DEF CountedOthers

LEMMA CommitTyped ==
  ASSUME IInv, NEW c \in Calls, Commit(c)
  PROVE  TypeOK'
<1>0. TypeOK /\ Finish(c)
  BY Committing
<1> USE Finished, <1>0
<1>1. DOMAIN rows' = Keys /\ \A k \in Keys : rows'[k] \in Rows(k) \cup {NoRow}
  BY SMTT(20), Committing DEF TypeOK
<1>2. \A d \in Calls : \/ work'[d] = NoWork
                       \/ work'[d] \in [key : Keys, row : Rows(work'[d].key), effect : Effects,
                                     reads : SUBSET Keys, locks : SUBSET (Keys \cup Names)]
  BY DEF TypeOK
<1>3. missed' \in [Calls -> SUBSET (Keys \cup Names)] /\ readBy' \in [Calls -> SUBSET Keys]
  <2>1. /\ missed \in [Calls -> SUBSET (Keys \cup Names)] /\ readBy \in [Calls -> SUBSET Keys]
        /\ work[c].locks \in SUBSET (Keys \cup Names) /\ work[c].reads \in SUBSET Keys
    BY Committing DEF TypeOK
  <2> QED
    BY <2>1 DEF Commit
<1>4. log' \in Seq([of : Calls \cup {NoOne}, effect : Effects, echo : BOOLEAN])
  <2> DEFINE Row == [of : Calls \cup {NoOne}, effect : Effects, echo : BOOLEAN]
  <2>1. log \in Seq(Row) /\ DOMAIN log = 1..Len(log) /\ Len(log) \in Nat
    BY DEF TypeOK
  <2>2. ASSUME NEW i \in 1..Len(log)
        PROVE  log[i] \in Row /\ [log[i] EXCEPT !.of = NoOne] \in Row
    <3>1. log[i] \in Row
      BY <2>1, ElementOfSeq
    <3> QED
      BY <3>1
  <2> HIDE DEF Row
  <2>3. log' \in [1..Len(log) -> Row]
    BY <2>1, <2>2 DEF Commit
  <2> QED
    BY <2>1, <2>3, FunctionIsSeq DEF Row
<1>5. root' \in [Agents -> Users \cup {NoOne}] /\ source' \in [Tokens -> Tokens \cup {NoOne}]
  <2>1. CallerKnown(c) /\ caller[c].via \in Tokens \cup {NoOne} /\ phase[c] # "idle"
    BY DEF IInv, CallInv, TypeOK, Commit
  <2> QED
    BY <2>1 DEF TypeOK, Commit, CallerKnown
<1> QED
  BY <1>1, <1>2, <1>3, <1>4, <1>5 DEF TypeOK

LEMMA CommitKeepsSource ==
  ASSUME IInv, NEW c \in Calls, Commit(c)
  PROVE  RowsHaveSource'
<1>0. /\ RowsHaveSource /\ WritesKeepSource(c) /\ CallerKnown(c) /\ phase[c] # "idle" /\ TypeOK
      /\ Agents \subseteq Keys /\ Tokens \subseteq Keys
      /\ Users \cap Agents = {} /\ Agents \cap Tokens = {} /\ NoOne \notin Tokens
  BY KeysAssumption DEF IInv, CallInv, Commit, Keys
<1> DEFINE k == work[c].key
<1>1. ASSUME NEW a \in Agents, rows'[a] # NoRow PROVE rows'[a].owner = root'[a]
  <2>1. CASE rows[a] # NoRow
    <3>1. root'[a] = root[a]
      BY <1>0, <2>1 DEF Commit, TypeOK
    <3> QED
      BY <1>0, <2>1, <3>1, RowsLast DEF RowsHaveSource
  <2>2. CASE rows[a] = NoRow
    <3>1. k = a /\ work[c].locks # {} /\ rows'[a] = work[c].row
      BY <1>0, <1>1, <2>2, Committing
    <3>2. root'[a] = IF caller[c].by \in Users THEN caller[c].by ELSE root[caller[c].by]
      BY <1>0, <2>2, <3>1 DEF Commit, TypeOK
    <3>3. rows'[a].owner = HumanAnchor(c)
      BY <1>0, <2>2, <3>1, Committing DEF WritesKeepSource
    <3> QED
      BY <1>0, <3>2, <3>3 DEF HumanAnchor, CallerKnown, RowsHaveSource
  <2> QED
    BY <2>1, <2>2
<1>2. ASSUME NEW t \in Tokens, rows'[t] # NoRow
      PROVE  /\ source'[t] \in Tokens
             /\ rows'[source'[t]] # NoRow
             /\ rows'[t].scopes \subseteq rows'[source'[t]].scopes
  <2>1. CASE rows[t] # NoRow
    <3>1. source'[t] = source[t]
      BY <1>0, <2>1 DEF Commit, TypeOK
    <3>2. source[t] \in Tokens /\ rows[source[t]] # NoRow
          /\ rows[t].scopes \subseteq rows[source[t]].scopes
      BY <1>0, <2>1 DEF RowsHaveSource
    <3> QED
      BY <1>0, <2>1, <3>1, <3>2, RowsLast
  <2>2. CASE rows[t] = NoRow
    <3>1. k = t /\ work[c].locks # {} /\ rows'[t] = work[c].row
      BY <1>0, <1>2, <2>2, Committing
    <3>2. source'[t] = IF caller[c].via = NoOne THEN t ELSE source[caller[c].via]
      BY <1>0, <2>2, <3>1 DEF Commit, TypeOK
    <3>3. CASE caller[c].via = NoOne
      BY <1>2, <3>2, <3>3
    <3>4. CASE caller[c].via # NoOne
      <4> DEFINE via == caller[c].via
      <4>1. via \in Tokens
        BY <1>0, <3>4 DEF TypeOK
      <4>2. caller[c].by \in Agents /\ rows[via] # NoRow /\ caller[c].can = rows[via].scopes
        BY <1>0, <4>1 DEF CallerKnown
      <4>3. rows'[t].scopes \subseteq rows[via].scopes
        BY <1>0, <2>2, <3>1, <4>2, Committing DEF WritesKeepSource
      <4>4. source[via] \in Tokens /\ rows[source[via]] # NoRow
            /\ rows[via].scopes \subseteq rows[source[via]].scopes
        BY <1>0, <4>1, <4>2 DEF RowsHaveSource
      <4> QED
        BY <1>0, <3>2, <3>4, <4>3, <4>4, RowsLast
    <3> QED
      BY <3>3, <3>4
  <2> QED
    BY <2>1, <2>2
<1> QED
  BY <1>1, <1>2 DEF RowsHaveSource

LEMMA CommitStep ==
  ASSUME IInv, NEW c \in Calls, Commit(c)
  PROVE  IInv'
<1>0. TypeOK /\ Finish(c) /\ Agents \subseteq Keys /\ Tokens \subseteq Keys
  BY Committing DEF Keys
<1> USE Finished, <1>0
<1>1. ASSUME NEW d \in Calls PROVE CallInv(d)'
  <2>0. CallInv(d)
    BY DEF IInv
  <2>1. Idle(d)'
    BY <2>0 DEF CallInv, Idle
  <2>2. LocksDisjoint(d)'
    BY <2>0 DEF CallInv, LocksDisjoint, NoWork
  <2>3. HoldsItsRow(d)'
    <3> SUFFICES ASSUME Pending(d)' PROVE HoldsItsRow(d)'
      BY DEF HoldsItsRow
    <3>1. d # c /\ Pending(d) /\ work'[d] = work[d] /\ HoldsItsRow(d) /\ work[d].key \in Keys
      BY <2>0 DEF CallInv, HoldsItsRow, TypeOK
    <3>2. work[d].locks # {} => rows'[work[d].key] = rows[work[d].key]
      BY <3>1, Committing
    <3> QED
      BY <3>1, <3>2 DEF HoldsItsRow, Live, LiveIn
  <2>4. OneCountedTheOther(d)'
    BY <2>0, OwnersAfter DEF CallInv, OneCountedTheOther
  <2>5. CallerKnown(d)'
    BY <2>0, RowsLast, KeysAssumption DEF CallInv, CallerKnown, NoCaller, Keys
  <2>6. WritesKeepSource(d)'
    <3> SUFFICES ASSUME Pending(d)', work'[d].locks # {} PROVE WritesKeepSource(d)'
      BY DEF WritesKeepSource
    <3>1. d # c /\ Pending(d) /\ work'[d] = work[d] /\ work[d].key \in Keys
          /\ caller'[d] = caller[d] /\ WritesKeepSource(d) /\ CallerKnown(d)
      BY <2>0 DEF CallInv, HoldsItsRow, TypeOK
    <3>2. rows'[work[d].key] = rows[work[d].key]
      BY <3>1, Committing
    <3>3. HumanAnchor(d)' = HumanAnchor(d)
      <4>1. caller[d].by \in Users \cup Agents
        BY <3>1 DEF CallerKnown, Pending
      <4> QED
        BY <3>1, <4>1, RowsLast DEF HumanAnchor, CallerKnown
    <3> QED
      BY <3>1, <3>2, <3>3 DEF WritesKeepSource
  <2> QED
    BY <2>1, <2>2, <2>3, <2>4, <2>5, <2>6, CommitLeavesPivots, CommitKeepsCounts DEF CallInv
<1> QED
  BY <1>1, CommitTyped, CommitLeavesOwner, CommitKeepsSource DEF IInv

-----------------------------------------------------------------------------
(* Replay of a log *)

\* The order that the least number of a set is least in.
NatLess == {p \in Nat \X Nat : p[1] < p[2]}

\* A set that holds 0, and with a number below n the next, holds 0 to n: the
\* least number it leaves out would be the next of one it holds.
LEMMA IntervalInduction ==
  ASSUME NEW n \in Nat, NEW S, 0 \in S,
         \A i \in 0..n : i \in S /\ i < n => i + 1 \in S
  PROVE  0..n \subseteq S
<1> DEFINE T == (0..n) \ S
<1> SUFFICES ASSUME T # {} PROVE FALSE
  OBVIOUS
<1>1. IsWellFoundedOn(NatLess, Nat) /\ T \subseteq Nat
  BY NatLessThanWellFounded DEF OpToRel, NatLess
<1>2. \A x, y \in Nat : x < y => <<x, y>> \in NatLess
  BY DEF NatLess
<1>3. PICK m \in T : \A y \in T : ~(<<y, m>> \in NatLess)
  BY <1>1, WFMin
<1>4. m \in 0..n /\ m # 0 /\ m - 1 \in 0..n /\ m - 1 < m /\ m - 1 < n /\ (m - 1) + 1 = m
  BY <1>3
<1>5. m - 1 \notin T
  <2>1. m \in Nat /\ m - 1 \in Nat
    BY <1>4
  <2>2. <<m - 1, m>> \in NatLess
    BY <1>2, <1>4, <2>1
  <2> QED
    BY <1>3, <2>2
<1> QED
  BY <1>3, <1>4, <1>5

\* The equation of a replay: it starts at the genesis, and each row of the log
\* that counts is reduced into the tables of the row before.
LEMMA ReplayEquation ==
  ASSUME NEW entries, Len(entries) \in Nat, NEW S
  PROVE  /\ Replay(entries, S)[0] = Genesis
         /\ \A i \in 1..Len(entries) :
              Replay(entries, S)[i] = IF i \in S
                                      THEN Reduce(Replay(entries, S)[i - 1], entries[i].effect)
                                      ELSE Replay(entries, S)[i - 1]
<1> DEFINE n == Len(entries)
           Effect(i) == entries[i].effect
           Step(s, i) == IF i \in S THEN Reduce(s, Effect(i)) ELSE s
           Computes(f, m) == /\ f = [i \in 0..m |-> f[i]]
                             /\ f[0] = Genesis
                             /\ \A i \in 1..m : f[i] = Step(f[i - 1], i)
           T == {m \in 0..n : \E f : Computes(f, m)}
<1>0. n \in Nat
  OBVIOUS
<1> HIDE DEF n, Step
<1>1. 0 \in T
  <2> DEFINE f == [i \in 0..0 |-> Genesis]
  <2>1. Computes(f, 0)
    OBVIOUS
  <2> HIDE DEF f, Computes
  <2> QED
    BY <1>0, <2>1
<1>2. ASSUME NEW m \in 0..n, m \in T, m < n PROVE m + 1 \in T
  <2>1. PICK f : Computes(f, m)
    BY <1>2
  <2> DEFINE g == [i \in 0..m + 1 |-> IF i = m + 1 THEN Step(f[m], m + 1) ELSE f[i]]
  <2>2. m \in Nat /\ m + 1 \in 0..n
    BY <1>0, <1>2
  <2>3. g = [i \in 0..m + 1 |-> g[i]] /\ g[0] = Genesis
    BY <2>1, <2>2
  <2>4. ASSUME NEW i \in 1..m + 1 PROVE g[i] = Step(g[i - 1], i)
    <3>1. CASE i = m + 1
      BY <2>2, <3>1
    <3>2. CASE i # m + 1
      <4>1. i \in 1..m /\ i - 1 \in 0..m + 1 /\ i \in 0..m + 1 /\ i - 1 # m + 1
        BY <2>2, <3>2
      <4>2. g[i] = f[i] /\ g[i - 1] = f[i - 1]
        BY <3>2, <4>1
      <4> HIDE DEF g
      <4> QED
        BY <2>1, <4>1, <4>2
    <3> QED
      BY <3>1, <3>2
  <2>5. Computes(g, m + 1)
    BY <2>3, <2>4
  <2> HIDE DEF g, Computes
  <2> QED
    BY <2>2, <2>5
<1>3. n \in T
  <2> HIDE DEF T
  <2>1. \A i \in 0..n : i \in T /\ i < n => i + 1 \in T
    BY <1>2
  <2>2. 0..n \subseteq T
    BY <1>0, <1>1, <2>1, IntervalInduction
  <2> QED
    BY <1>0, <2>2
<1>4. PICK f : Computes(f, n)
  BY <1>3
<1>5. f = [i \in 0..n |-> IF i = 0 THEN Genesis
                          ELSE IF i \in S THEN Reduce(f[i - 1], Effect(i)) ELSE f[i - 1]]
  <2>1. \A i \in 0..n : f[i] = IF i = 0 THEN Genesis ELSE Step(f[i - 1], i)
    BY <1>0, <1>4
  <2> DEFINE Body(i) == IF i = 0 THEN Genesis
                        ELSE IF i \in S THEN Reduce(f[i - 1], Effect(i)) ELSE f[i - 1]
  <2>2. \A i \in 0..n : f[i] = Body(i)
    BY <2>1 DEF Step
  <2> HIDE DEF Body
  <2>3. f = [i \in 0..n |-> Body(i)]
    BY <1>4, <2>2
  <2> QED
    BY <2>3 DEF Body
<1> DEFINE r == Replay(entries, S)
<1>6. r = [i \in 0..n |-> IF i = 0 THEN Genesis
                          ELSE IF i \in S THEN Reduce(r[i - 1], Effect(i)) ELSE r[i - 1]]
  BY <1>5 DEF Replay, n
<1> HIDE DEF r
<1> QED
  BY <1>0, <1>6 DEF n, r

\* A replay has a table entry for every key, whatever the effects.
LEMMA ReplayTables ==
  ASSUME NEW entries, Len(entries) \in Nat, NEW S
  PROVE  \A i \in 0..Len(entries) : DOMAIN Replay(entries, S)[i] = Keys
<1> DEFINE n == Len(entries)
           r == Replay(entries, S)
           T == {i \in 0..n : DOMAIN r[i] = Keys}
<1>1. 0 \in T
  <2>1. r[0] = Genesis
    BY ReplayEquation
  <2>2. DOMAIN Genesis = Keys
    BY DEF Genesis
  <2> QED
    BY <2>1, <2>2
<1>2. ASSUME NEW i \in 0..n, i \in T, i < n PROVE i + 1 \in T
  <2>1. /\ i + 1 \in 1..n /\ (i + 1) - 1 = i
        /\ r[i + 1] = IF i + 1 \in S THEN Reduce(r[(i + 1) - 1], entries[i + 1].effect)
                      ELSE r[(i + 1) - 1]
    BY <1>2, ReplayEquation
  <2>2. DOMAIN r[i + 1] = Keys
    BY <1>2, <2>1 DEF Reduce
  <2> QED
    BY <2>1, <2>2
<1> HIDE DEF T
<1>3. 0..n \subseteq T
  BY <1>1, <1>2, IntervalInduction
<1> QED
  BY <1>3 DEF T

\* Effects on two rows may be reduced in either order.
LEMMA ReductionsCommute ==
  ASSUME NEW s, NEW a, NEW b, a[2] \in DOMAIN s, b[2] \in DOMAIN s, a[2] # b[2]
  PROVE  Reduce(Reduce(s, a), b) = Reduce(Reduce(s, b), a)
<1>1. /\ Reduce(s, a) = [k \in DOMAIN s |-> IF k = a[2] THEN ReduceRow(s[a[2]], a) ELSE s[k]]
      /\ Reduce(s, b) = [k \in DOMAIN s |-> IF k = b[2] THEN ReduceRow(s[b[2]], b) ELSE s[k]]
  BY DEF Reduce
<1>2. Reduce(s, a)[b[2]] = s[b[2]] /\ Reduce(s, b)[a[2]] = s[a[2]]
  BY <1>1
<1>3. Reduce(Reduce(s, a), b) =
        [k \in DOMAIN s |-> IF k = b[2] THEN ReduceRow(s[b[2]], b)
                            ELSE IF k = a[2] THEN ReduceRow(s[a[2]], a) ELSE s[k]]
  BY <1>1, <1>2 DEF Reduce
<1>4. Reduce(Reduce(s, b), a) =
        [k \in DOMAIN s |-> IF k = a[2] THEN ReduceRow(s[a[2]], a)
                            ELSE IF k = b[2] THEN ReduceRow(s[b[2]], b) ELSE s[k]]
  BY <1>1, <1>2 DEF Reduce
<1> QED
  BY <1>3, <1>4

\* A row of the log that comes to count is as good as reduced last, when none
\* that counts after it is about the same key.
LEMMA ReplayCountsLate ==
  ASSUME NEW entries, Len(entries) \in Nat, NEW S, NEW p \in 1..Len(entries), p \notin S,
         \A i \in 1..Len(entries) : entries[i].effect[2] \in Keys,
         \A i \in S : i \in 1..Len(entries) /\ p < i =>
                        entries[i].effect[2] # entries[p].effect[2]
  PROVE  Rebuilt(entries, S \cup {p}) = Reduce(Rebuilt(entries, S), entries[p].effect)
<1> DEFINE n == Len(entries)
           e == entries[p].effect
           r == Replay(entries, S)
           q == Replay(entries, S \cup {p})
           T == {i \in 0..n : q[i] = IF i < p THEN r[i] ELSE Reduce(r[i], e)}
<1>1. 0 \in T
  BY ReplayEquation
<1>2. ASSUME NEW i \in 0..n, i \in T, i < n PROVE i + 1 \in T
  <2> DEFINE j == i + 1
             f == entries[j].effect
  <2>1. j \in 1..n /\ j - 1 = i /\ j \in 0..n
    BY <1>2
  <2>2. /\ r[j] = IF j \in S THEN Reduce(r[j - 1], f) ELSE r[j - 1]
        /\ q[j] = IF j \in S \cup {p} THEN Reduce(q[j - 1], f) ELSE q[j - 1]
    BY <2>1, ReplayEquation
  <2>3. DOMAIN r[i] = Keys /\ f[2] \in Keys /\ e[2] \in Keys
    BY <1>2, <2>1, ReplayTables
  <2>4. /\ r[j] = IF j \in S THEN Reduce(r[i], f) ELSE r[i]
        /\ q[j] = IF j \in S \/ j = p THEN Reduce(q[i], f) ELSE q[i]
    BY <2>1, <2>2
  <2>5. q[i] = IF i < p THEN r[i] ELSE Reduce(r[i], e)
    BY <1>2
  <2>6. q[j] = IF j < p THEN r[j] ELSE Reduce(r[j], e)
    <3>1. CASE j < p
      BY <2>1, <2>4, <2>5, <3>1
    <3>2. CASE j = p
      BY <2>1, <2>4, <2>5, <3>2
    <3>3. CASE p < j /\ j \in S
      <4>1. f[2] # e[2] /\ ~(i < p) /\ j # p /\ ~(j < p)
        BY <2>1, <3>3
      <4>2. Reduce(Reduce(r[i], e), f) = Reduce(Reduce(r[i], f), e)
        BY <2>3, <4>1, ReductionsCommute
      <4> HIDE DEF q, r, e, f, j
      <4> QED
        BY <2>4, <2>5, <3>3, <4>1, <4>2
    <3>4. CASE p < j /\ j \notin S
      BY <2>1, <2>4, <2>5, <3>4
    <3> QED
      BY <2>1, <3>1, <3>2, <3>3, <3>4
  <2> QED
    BY <2>1, <2>6
<1> HIDE DEF T
<1>3. 0..n \subseteq T
  BY <1>1, <1>2, IntervalInduction
<1>4. n \in T /\ ~(n < p)
  BY <1>3
<1> QED
  BY <1>4 DEF T, Rebuilt

\* A replay depends on the effects that count, and on their order alone.
LEMMA ReplaySame ==
  ASSUME NEW entries, NEW other, Len(entries) \in Nat, Len(other) = Len(entries), NEW S,
         \A i \in 1..Len(entries) : i \in S => other[i].effect = entries[i].effect
  PROVE  Rebuilt(other, S) = Rebuilt(entries, S)
<1> DEFINE n == Len(entries)
           r == Replay(entries, S)
           q == Replay(other, S)
           T == {i \in 0..n : q[i] = r[i]}
<1>1. 0 \in T
  BY ReplayEquation
<1>2. ASSUME NEW i \in 0..n, i \in T, i < n PROVE i + 1 \in T
  <2> DEFINE j == i + 1
  <2>1. j \in 1..n /\ j - 1 = i /\ j \in 0..n
    BY <1>2
  <2>2. /\ r[j] = IF j \in S THEN Reduce(r[j - 1], entries[j].effect) ELSE r[j - 1]
        /\ q[j] = IF j \in S THEN Reduce(q[j - 1], other[j].effect) ELSE q[j - 1]
    BY <2>1, ReplayEquation
  <2>3. q[j] = r[j]
    BY <1>2, <2>1, <2>2
  <2> QED
    BY <2>1, <2>3
<1> HIDE DEF T
<1>3. 0..n \subseteq T
  BY <1>1, <1>2, IntervalInduction
<1> QED
  BY <1>3 DEF T, Rebuilt

\* Nor does it change when a row that does not count is taken out of the log.
LEMMA ReplayWithout ==
  ASSUME NEW entries, NEW other, Len(other) \in Nat, Len(entries) = Len(other) + 1,
         NEW S, NEW O, NEW p \in 1..Len(entries), p \notin S,
         \A i \in 1..Len(other) : i < p =>
            (i \in O <=> i \in S) /\ other[i].effect = entries[i].effect,
         \A i \in 1..Len(other) : p <= i =>
            (i \in O <=> i + 1 \in S) /\ other[i].effect = entries[i + 1].effect
  PROVE  Rebuilt(other, O) = Rebuilt(entries, S)
<1> DEFINE n == Len(other)
           r == Replay(entries, S)
           q == Replay(other, O)
           At(i) == IF i < p THEN i ELSE i + 1
           T == {i \in 0..n : q[i] = r[At(i)]}
<1>0. Len(entries) \in Nat /\ Len(entries) = n + 1
  OBVIOUS
<1>e. \A k \in 1..Len(entries) : r[k] = IF k \in S THEN Reduce(r[k - 1], entries[k].effect)
                                      ELSE r[k - 1]
  BY <1>0, ReplayEquation
<1>1. 0 \in T
  BY ReplayEquation, <1>0
<1>2. ASSUME NEW i \in 0..n, i \in T, i < n PROVE i + 1 \in T
  <2> DEFINE j == i + 1
  <2>1. j \in 1..n /\ j - 1 = i /\ j \in 0..n /\ j \in 1..Len(entries) /\ j + 1 \in 1..Len(entries)
        /\ (j + 1) - 1 = j
    BY <1>0, <1>2
  <2>2. q[j] = IF j \in O THEN Reduce(q[i], other[j].effect) ELSE q[i]
    BY <2>1, ReplayEquation
  <2>3. r[j] = IF j \in S THEN Reduce(r[i], entries[j].effect) ELSE r[i]
    BY <1>e, <2>1
  <2>4. r[j + 1] = IF j + 1 \in S THEN Reduce(r[j], entries[j + 1].effect) ELSE r[j]
    BY <1>e, <2>1
  <2>5. q[i] = r[At(i)]
    BY <1>2
  <2>6. CASE j < p
    <3>1. At(i) = i /\ At(j) = j /\ q[j] = r[j]
      BY <2>1, <2>2, <2>3, <2>5, <2>6
    <3> QED
      BY <2>1, <3>1
  <2>7. CASE j = p
    <3>1. At(i) = i /\ At(j) = j + 1
      BY <2>1, <2>7
    <3>2. r[j] = r[i]
      BY <2>3, <2>7
    <3>3. (j \in O <=> j + 1 \in S) /\ other[j].effect = entries[j + 1].effect
      BY <2>1, <2>7
    <3>4. q[j] = r[j + 1]
      BY <2>2, <2>4, <2>5, <3>1, <3>2, <3>3
    <3> QED
      BY <2>1, <3>1, <3>4
  <2>8. CASE p < j
    <3>1. At(i) = j /\ At(j) = j + 1
      BY <2>1, <2>8
    <3>2. (j \in O <=> j + 1 \in S) /\ other[j].effect = entries[j + 1].effect
      BY <2>1, <2>8
    <3>3. q[j] = r[j + 1]
      BY <2>2, <2>4, <2>5, <3>1, <3>2
    <3> QED
      BY <2>1, <3>1, <3>3
  <2> QED
    BY <2>1, <2>6, <2>7, <2>8
<1> HIDE DEF T
<1>3. 0..n \subseteq T
  BY <1>1, <1>2, IntervalInduction
<1>4. n \in T
  BY <1>3
<1>5. At(n) = Len(entries) \/ (p = Len(entries) /\ At(n) = n)
  BY <1>0
<1>6. p = Len(entries) => r[Len(entries)] = r[n]
  <2>1. Len(entries) \in 1..Len(entries) /\ Len(entries) - 1 = n
    BY <1>0
  <2> QED
    BY <1>0, <2>1, ReplayEquation
<1> QED
  BY <1>4, <1>5, <1>6 DEF T, Rebuilt

-----------------------------------------------------------------------------
(* The log and the tables: an audit row takes its id while its call holds the *)
(* lock of the row it writes, so writes of one row have their ids in the      *)
(* order of their commits, whatever the order across rows.                    *)

\* The effect a pending call reports is what it does to the row it holds.
ReportsItsWrite(c) ==
  Pending(c) /\ work[c].locks # {} =>
    /\ work[c].effect[2] = work[c].key
    /\ work[c].row = ReduceRow(rows[work[c].key], work[c].effect)

\* The log holds one row of every audited call, and of no other in flight.
OneRowEach(c) ==
  /\ \A i \in DOMAIN log : log[i].of = c =>
       /\ phase[c] = "audited"
       /\ log[i].effect = work[c].effect
       /\ log[i].echo <=> work[c].locks = {}
       /\ \A j \in DOMAIN log : log[j].of = c => j = i
  /\ phase[c] = "audited" => \E i \in DOMAIN log : log[i].of = c

\* Of two writes of one row in the log, the earlier is committed.
Writes(i, k) == ~log[i].echo /\ log[i].effect[2] = k

WritesInOrder ==
  \A i, j \in DOMAIN log : i < j /\ Writes(i, log[j].effect[2]) /\ ~log[j].echo
    => log[i].of = NoOne

LogInv ==
  /\ \A c \in Calls : ReportsItsWrite(c) /\ OneRowEach(c)
  /\ WritesInOrder
  /\ LogRebuildsTables

LEMMA EffectsHaveKeys ==
  ASSUME NEW e \in Effects
  PROVE  e[2] \in Keys
BY DEF Effects, Keys

\* What the types say of the log.
LEMMA LogFacts ==
  ASSUME TypeOK
  PROVE  /\ Len(log) \in Nat /\ DOMAIN log = 1..Len(log)
         /\ \A i \in 1..Len(log) : /\ log[i].of \in Calls \cup {NoOne}
                                  /\ log[i].effect \in Effects
                                  /\ log[i].effect[2] \in Keys
                                  /\ log[i].echo \in BOOLEAN
         /\ NoOne \notin Calls
<1> DEFINE Row == [of : Calls \cup {NoOne}, effect : Effects, echo : BOOLEAN]
<1>1. log \in Seq(Row)
  BY DEF TypeOK
<1>2. Len(log) \in Nat /\ DOMAIN log = 1..Len(log)
  BY <1>1
<1>3. ASSUME NEW i \in 1..Len(log)
      PROVE  log[i].of \in Calls \cup {NoOne} /\ log[i].effect \in Effects /\ log[i].echo \in BOOLEAN
  <2>1. log[i] \in Row
    BY <1>1, ElementOfSeq
  <2> QED
    BY <2>1
<1> QED
  BY <1>2, <1>3, EffectsHaveKeys, KeysAssumption

LEMMA InitLog == Init => LogInv
<1> SUFFICES ASSUME Init PROVE LogInv
  OBVIOUS
<1>1. log = <<>> /\ DOMAIN log = {} /\ Len(log) = 0 /\ rows = Genesis
  BY DEF Init, Genesis
<1>2. \A c \in Calls : ReportsItsWrite(c) /\ OneRowEach(c)
  BY <1>1 DEF Init, ReportsItsWrite, OneRowEach, Pending
<1>3. Rebuilt(log, Wrote) = Genesis
  BY <1>1, ReplayEquation DEF Rebuilt
<1> QED
  BY <1>1, <1>2, <1>3 DEF LogInv, WritesInOrder, LogRebuildsTables

\* A step that leaves the log, the tables and the calls at work alone.
LEMMA EnterLog ==
  ASSUME IInv, LogInv, NEW c \in Calls, NEW who, Enter(c, who)
  PROVE  LogInv'
<1>1. UNCHANGED <<rows, work, log>>
  BY DEF Enter
<1>2. \A d \in Calls : (Pending(d)' <=> Pending(d)) /\ (phase'[d] = "audited" <=> phase[d] = "audited")
  BY DEF Enter, IInv, TypeOK, Pending
<1>3. \A d \in Calls : ReportsItsWrite(d)' /\ OneRowEach(d)'
  BY <1>1, <1>2 DEF LogInv, ReportsItsWrite, OneRowEach
<1>4. WritesInOrder' /\ LogRebuildsTables'
  BY <1>1 DEF LogInv, WritesInOrder, Writes, LogRebuildsTables, Wrote, Committed
<1> QED
  BY <1>3, <1>4 DEF LogInv

LEMMA PerformLog ==
  ASSUME IInv, LogInv, NEW c \in Calls, NEW scope, NEW w, Perform(c, scope, w),
         w.locks # {} => w.effect[2] = w.key /\ w.row = ReduceRow(rows[w.key], w.effect)
  PROVE  LogInv'
<1>1. UNCHANGED <<rows, log>>
  BY DEF Perform
<1>2. \A d \in Calls : /\ work'[d] = IF d = c THEN w ELSE work[d]
                       /\ Pending(d)' <=> d = c \/ Pending(d)
                       /\ phase'[d] = "audited" <=> d # c /\ phase[d] = "audited"
                       /\ d = c => phase[d] # "audited"
  BY DEF Perform, IInv, TypeOK, Pending
<1>3. \A d \in Calls : ReportsItsWrite(d)' /\ OneRowEach(d)'
  BY <1>1, <1>2 DEF LogInv, ReportsItsWrite, OneRowEach
<1>4. WritesInOrder' /\ LogRebuildsTables'
  BY <1>1 DEF LogInv, WritesInOrder, Writes, LogRebuildsTables, Wrote, Committed
<1> QED
  BY <1>3, <1>4 DEF LogInv

\* Every handler reports an effect that reduces to the row it wrote.
LEMMA MemberLog ==
  ASSUME IInv, LogInv, NEW c \in Calls, NEW u \in Users, NEW r \in Roles,
         MemberAdd(c, u, r) \/ MemberRemove(c, u) \/ MemberUpdateRole(c, u, r)
  PROVE  LogInv'
<1>1. CASE MemberAdd(c, u, r)
  BY <1>1, PerformLog DEF MemberAdd, Write, ReduceRow
<1>2. CASE MemberRemove(c, u)
  <2>1. rows[u] # NoRow
    BY <1>2 DEF MemberRemove, Live, LiveIn
  <2> QED
    BY <1>2, <2>1, PerformLog DEF MemberRemove, Write, ReduceRow, PatchRow
<1>3. CASE MemberUpdateRole(c, u, r)
  <2>1. rows[u] # NoRow
    BY <1>3 DEF MemberUpdateRole, Live, LiveIn
  <2> QED
    BY <1>3, <2>1, PerformLog DEF MemberUpdateRole, Write, ReduceRow, PatchRow
<1> QED
  BY <1>1, <1>2, <1>3

LEMMA AgentLog ==
  ASSUME IInv, LogInv, NEW c \in Calls, NEW a \in Agents,
         \/ \E n \in Names : AgentCreate(c, a, n) \/ AgentUpdate(c, a, n)
         \/ AgentRevoke(c, a)
  PROVE  LogInv'
<1>1. ASSUME NEW n \in Names, AgentCreate(c, a, n) PROVE LogInv'
  BY <1>1, PerformLog DEF AgentCreate, Write, ReduceRow
<1>2. ASSUME NEW n \in Names, AgentUpdate(c, a, n), rows[a].name = n PROVE LogInv'
  BY <1>2, PerformLog DEF AgentUpdate, Echo
<1>3. ASSUME NEW n \in Names, AgentUpdate(c, a, n), rows[a].name # n PROVE LogInv'
  <2>1. rows[a] # NoRow
    BY <1>3 DEF AgentUpdate, Live, LiveIn
  <2> QED
    BY <1>3, <2>1, PerformLog DEF AgentUpdate, Write, ReduceRow, PatchRow
<1>4. CASE AgentRevoke(c, a)
  <2>1. rows[a] # NoRow
    BY <1>4 DEF AgentRevoke, Live, LiveIn
  <2> QED
    BY <1>4, <2>1, PerformLog DEF AgentRevoke, Write, ReduceRow, PatchRow
<1> QED
  BY <1>1, <1>2, <1>3, <1>4

LEMMA TokenLog ==
  ASSUME IInv, LogInv, NEW c \in Calls, NEW t \in Tokens,
         \/ \E a \in Agents, s \in Mintable : TokenMint(c, t, a, s)
         \/ TokenRevoke(c, t)
  PROVE  LogInv'
<1>1. ASSUME NEW a \in Agents, NEW s \in Mintable, TokenMint(c, t, a, s) PROVE LogInv'
  BY <1>1, PerformLog DEF TokenMint, Write, ReduceRow
<1>2. CASE TokenRevoke(c, t)
  <2>1. rows[t] # NoRow
    BY <1>2 DEF TokenRevoke, Live, LiveIn
  <2> QED
    BY <1>2, <2>1, PerformLog DEF TokenRevoke, Write, ReduceRow, PatchRow
<1> QED
  BY <1>1, <1>2

\* A write in the log that is not committed is of a call that holds the row.
LEMMA UncommittedHolds ==
  ASSUME IInv, LogInv, NEW c \in Calls, Pending(c), work[c].locks # {},
         NEW i \in DOMAIN log, Writes(i, work[c].key)
  PROVE  log[i].of \in {NoOne, c}
<1> SUFFICES ASSUME log[i].of # NoOne, log[i].of # c PROVE FALSE
  OBVIOUS
<1> DEFINE d == log[i].of
<1>1. d \in Calls
  BY LogFacts DEF IInv
<1>2. OneRowEach(d) /\ ReportsItsWrite(d) /\ HoldsItsRow(d) /\ HoldsItsRow(c) /\ LocksDisjoint(c)
  BY <1>1 DEF IInv, CallInv, LogInv
<1>3. Pending(d) /\ work[d].locks # {} /\ work[d].effect = log[i].effect
  BY <1>2 DEF OneRowEach, Writes, Pending
<1>4. work[d].key = work[c].key
  BY <1>2, <1>3 DEF ReportsItsWrite, Writes
<1> QED
  BY <1>1, <1>2, <1>3, <1>4 DEF HoldsItsRow, LocksDisjoint

LEMMA AuditLog ==
  ASSUME IInv, LogInv, NEW c \in Calls, Audit(c)
  PROVE  LogInv'
<1> DEFINE n == Len(log)
           e == [of |-> c, effect |-> work[c].effect, echo |-> work[c].locks = {}]
<1>0. TypeOK /\ n \in Nat /\ DOMAIN log = 1..n /\ c # NoOne
  BY LogFacts DEF IInv
<1>1. /\ Len(log') = n + 1 /\ DOMAIN log' = 1..n + 1
      /\ \A i \in 1..n : log'[i] = log[i]
      /\ log'[n + 1] = e
  <2>1. log' = Append(log, e) /\ log \in Seq([of : Calls \cup {NoOne}, effect : Effects, echo : BOOLEAN])
    BY <1>0 DEF Audit, TypeOK
  <2> HIDE DEF e
  <2> QED
    BY <2>1
<1>e. e.of = c /\ e.effect = work[c].effect /\ (e.echo <=> work[c].locks = {})
  OBVIOUS
<1> HIDE DEF e
<1>2. UNCHANGED <<rows, work>> /\ Pending(c) /\ phase[c] = "handled"
  BY DEF Audit, Pending
<1>3. \A d \in Calls : /\ Pending(d)' <=> Pending(d)
                       /\ phase'[d] = "audited" <=> d = c \/ phase[d] = "audited"
  BY <1>0 DEF Audit, Pending, TypeOK
<1>4. ASSUME NEW d \in Calls PROVE ReportsItsWrite(d)' /\ OneRowEach(d)'
  <2>1. ReportsItsWrite(d) /\ OneRowEach(d)
    BY DEF LogInv
  <2>2. ReportsItsWrite(d)'
    BY <1>2, <1>3, <2>1 DEF ReportsItsWrite
  <2>3. \A i \in 1..n : log[i].of # c
    BY <1>0, <1>2 DEF LogInv, OneRowEach
  <2>4. \A i \in 1..n + 1 : i \in 1..n \/ i = n + 1
    BY <1>0
  <2>5. CASE d = c
    <3>1. \A i \in 1..n + 1 : log'[i].of = c => i = n + 1
      BY <1>1, <2>3, <2>4
    <3>2. n + 1 \in 1..n + 1 /\ log'[n + 1].of = c
      BY <1>0, <1>1, <1>e
    <3>3. ASSUME NEW i \in 1..n + 1, log'[i].of = d
          PROVE  /\ phase'[d] = "audited" /\ log'[i].effect = work'[d].effect
                 /\ log'[i].echo <=> work'[d].locks = {}
                 /\ \A j \in 1..n + 1 : log'[j].of = d => j = i
      BY <1>1, <1>e, <1>2, <1>3, <2>5, <3>1, <3>3
    <3> QED
      BY <2>2, <1>1, <2>5, <3>2, <3>3 DEF OneRowEach
  <2>6. CASE d # c
    <3>1. \A i \in 1..n + 1 : log'[i].of = d => i \in 1..n /\ log'[i] = log[i]
      BY <1>1, <1>e, <2>4, <2>6
    <3>2. \A i \in 1..n : i \in 1..n + 1 /\ log'[i] = log[i]
      BY <1>0, <1>1
    <3>3. ASSUME NEW i \in 1..n + 1, log'[i].of = d
          PROVE  /\ phase'[d] = "audited" /\ log'[i].effect = work'[d].effect
                 /\ log'[i].echo <=> work'[d].locks = {}
                 /\ \A j \in 1..n + 1 : log'[j].of = d => j = i
      BY <1>0, <1>2, <1>3, <2>1, <3>1, <3>3 DEF OneRowEach
    <3>4. ASSUME phase'[d] = "audited" PROVE \E i \in 1..n + 1 : log'[i].of = d
      BY <1>0, <1>3, <2>1, <2>6, <3>2, <3>4 DEF OneRowEach
    <3> QED
      BY <2>2, <1>1, <3>3, <3>4 DEF OneRowEach
  <2> QED
    BY <2>2, <2>5, <2>6
<1>5. WritesInOrder'
  <2> SUFFICES ASSUME NEW i \in 1..n + 1, NEW j \in 1..n + 1, i < j,
                      ~log'[i].echo, log'[i].effect[2] = log'[j].effect[2], ~log'[j].echo
               PROVE  log'[i].of = NoOne
    BY <1>1 DEF WritesInOrder, Writes
  <2>1. i \in 1..n /\ log'[i] = log[i]
    BY <1>0, <1>1
  <2>2. CASE j \in 1..n
    BY <1>0, <1>1, <2>1, <2>2 DEF LogInv, WritesInOrder, Writes
  <2>3. CASE j = n + 1
    <3>1. work[c].locks # {} /\ log[i].effect[2] = work[c].effect[2]
      BY <1>1, <1>e, <2>1, <2>3
    <3>2. Writes(i, work[c].key)
      BY <1>2, <2>1, <3>1 DEF LogInv, ReportsItsWrite, Writes
    <3>3. log[i].of \in {NoOne, c}
      BY <1>0, <1>2, <2>1, <3>1, <3>2, UncommittedHolds
    <3>4. log[i].of # c
      BY <1>0, <1>2, <2>1 DEF LogInv, OneRowEach
    <3> QED
      BY <2>1, <3>3, <3>4
  <2> QED
    BY <1>0, <2>2, <2>3
<1>6. LogRebuildsTables'
  <2> DEFINE W == Wrote'
  <2>1. \A i \in 1..n : i \in Wrote <=> i \in W
    BY <1>0, <1>1 DEF Wrote, Committed
  <2>2. n + 1 \notin W
    BY <1>0, <1>1, <1>e DEF Wrote, Committed
  <2> HIDE DEF W
  <2>3. Rebuilt(log, Wrote) = Rebuilt(log', W)
    <3>1. n + 1 \in 1..Len(log')
      BY <1>0, <1>1
    <3>2. \A i \in 1..Len(log) : i < n + 1 =>
             (i \in Wrote <=> i \in W) /\ log[i].effect = log'[i].effect
      BY <1>1, <2>1
    <3>3. \A i \in 1..Len(log) : n + 1 <= i =>
             (i \in Wrote <=> i + 1 \in W) /\ log[i].effect = log'[i + 1].effect
      BY <1>0
    <3> QED
      BY <1>0, <1>1, <2>2, <3>1, <3>2, <3>3, ReplayWithout
  <2> QED
    BY <1>2, <2>3 DEF LogInv, LogRebuildsTables, W
<1> QED
  BY <1>4, <1>5, <1>6 DEF LogInv

\* An abort takes the row of its call out of the log, where it did not count.
LEMMA AbortLog ==
  ASSUME IInv, LogInv, NEW c \in Calls, Abort(c)
  PROVE  LogInv'
<1>0. TypeOK /\ Finish(c) /\ UNCHANGED rows
  BY DEF IInv, Abort
<1> DEFINE n == Len(log)
<1>1. n \in Nat /\ DOMAIN log = 1..n /\ NoOne \notin Calls
  BY <1>0, LogFacts
<1>2. \A d \in Calls : /\ d # c => work'[d] = work[d]
                       /\ Pending(d)' <=> d # c /\ Pending(d)
                       /\ phase'[d] = "audited" <=> d # c /\ phase[d] = "audited"
  BY <1>0, Finished DEF Finish, TypeOK
<1>3. \A d \in Calls : ReportsItsWrite(d)'
  BY <1>0, <1>2 DEF LogInv, ReportsItsWrite
<1>4. CASE phase[c] # "audited"
  <2>1. log' = log
    BY <1>4 DEF Abort
  <2>2. \A d \in Calls : OneRowEach(d)'
    BY <1>2, <1>4, <2>1 DEF LogInv, OneRowEach
  <2>3. WritesInOrder' /\ LogRebuildsTables'
    BY <1>0, <2>1 DEF LogInv, WritesInOrder, Writes, LogRebuildsTables, Wrote, Committed
  <2> QED
    BY <1>3, <2>2, <2>3 DEF LogInv
<1>5. CASE phase[c] = "audited"
  <2>0. OneRowEach(c)
    BY DEF LogInv
  <2>1. PICK p \in 1..n : log[p].of = c /\ \A j \in 1..n : log[j].of = c => j = p
    BY <1>1, <1>5, <2>0 DEF OneRowEach
  <2> DEFINE m == n - 1
             At(i) == IF i < p THEN i ELSE i + 1
  <2>2. m \in Nat /\ n = m + 1
    BY <1>1
  <2>3. /\ Len(log') = m /\ DOMAIN log' = 1..m
        /\ \A i \in 1..m : log'[i] = log[At(i)]
    <3>1. log' = [i \in 1..m |-> IF \E j \in 1..i : log[j].of = c THEN log[i + 1] ELSE log[i]]
      BY <1>5 DEF Abort, LogWithout
    <3>2. \A i \in 1..m : (\E j \in 1..i : log[j].of = c) <=> p <= i
      BY <1>1, <2>1
    <3>3. \A i \in 1..m : log'[i] = log[At(i)]
      BY <2>1, <2>2, <3>1, <3>2
    <3>4. DOMAIN log' = 1..m
      BY <3>1
    <3>5. Len(log') = m
      BY <2>2, <3>1
    <3> QED
      BY <3>3, <3>4, <3>5
  <2>4. \A i \in 1..m : At(i) \in 1..n /\ At(i) # p
    BY <1>1, <2>1
  <2>5. \A i, j \in 1..m : (i < j <=> At(i) < At(j)) /\ (At(i) = At(j) => i = j)
    BY <1>1, <2>1
  <2>6. \A k \in 1..n : k # p => \E i \in 1..m : At(i) = k
    <3> SUFFICES ASSUME NEW k \in 1..n, k # p PROVE \E i \in 1..m : At(i) = k
      OBVIOUS
    <3>1. CASE k < p
      BY <1>1, <2>1, <3>1
    <3>2. CASE p < k
      <4>1. k - 1 \in 1..m /\ At(k - 1) = k
        BY <1>1, <2>1, <3>2
      <4> QED
        BY <4>1
    <3> QED
      BY <3>1, <3>2
  <2> HIDE DEF At, m
  <2>7. ASSUME NEW d \in Calls PROVE OneRowEach(d)'
    <3>1. OneRowEach(d)
      BY DEF LogInv
    <3>2. CASE d = c
      BY <1>2, <2>1, <2>3, <2>4, <3>2 DEF OneRowEach
    <3>3. CASE d # c
      <4>1. ASSUME NEW i \in 1..m, log'[i].of = d
            PROVE  /\ phase'[d] = "audited" /\ log'[i].effect = work'[d].effect
                   /\ log'[i].echo <=> work'[d].locks = {}
                   /\ \A j \in 1..m : log'[j].of = d => j = i
        BY <1>1, <1>2, <2>3, <2>4, <2>5, <3>1, <3>3, <4>1 DEF OneRowEach
      <4>2. ASSUME phase'[d] = "audited" PROVE \E i \in 1..m : log'[i].of = d
        <5>1. PICK k \in 1..n : log[k].of = d
          BY <1>1, <1>2, <3>1, <4>2 DEF OneRowEach
        <5> QED
          BY <2>1, <2>3, <2>6, <3>3, <5>1
      <4> QED
        BY <2>3, <4>1, <4>2 DEF OneRowEach
    <3> QED
      BY <3>2, <3>3
  <2>8. WritesInOrder'
    <3> SUFFICES ASSUME NEW i \in 1..m, NEW j \in 1..m, i < j,
                        ~log'[i].echo, log'[i].effect[2] = log'[j].effect[2], ~log'[j].echo
                 PROVE  log'[i].of = NoOne
      BY <2>3 DEF WritesInOrder, Writes
    <3>1. At(i) < At(j) /\ At(i) \in DOMAIN log /\ At(j) \in DOMAIN log
          /\ log'[i] = log[At(i)] /\ log'[j] = log[At(j)]
      BY <1>1, <2>3, <2>4, <2>5
    <3> QED
      BY <3>1 DEF LogInv, WritesInOrder, Writes
  <2>9. LogRebuildsTables'
    <3> DEFINE W == Wrote'
    <3>1. \A i \in 1..m : i \in W <=> At(i) \in Wrote
      BY <1>1, <2>3, <2>4 DEF Wrote, Committed
    <3>2. p \notin Wrote
      BY <1>1, <2>1 DEF Wrote, Committed
    <3> HIDE DEF W
    <3>3. \A i \in 1..Len(log') : i < p => (i \in W <=> i \in Wrote) /\ log'[i].effect = log[i].effect
      BY <2>3, <3>1 DEF At
    <3>4. \A i \in 1..Len(log') : p <= i =>
             (i \in W <=> i + 1 \in Wrote) /\ log'[i].effect = log[i + 1].effect
      BY <2>1, <2>2, <2>3, <3>1 DEF At
    <3>5. Rebuilt(log', W) = Rebuilt(log, Wrote)
      BY <2>1, <2>2, <2>3, <3>2, <3>3, <3>4, ReplayWithout
    <3> QED
      BY <1>0, <3>5 DEF LogInv, LogRebuildsTables, W
  <2> QED
    BY <1>3, <2>7, <2>8, <2>9 DEF LogInv
<1> QED
  BY <1>4, <1>5

\* The effect of a commit counts from now on; no later row of the log that
\* counts is about its key, so it is as if it had been reduced last.
LEMMA CommitLog ==
  ASSUME IInv, LogInv, NEW c \in Calls, Commit(c)
  PROVE  LogInv'
<1> DEFINE n == Len(log)
<1>0. TypeOK /\ Finish(c) /\ Pending(c) /\ n \in Nat /\ DOMAIN log = 1..n /\ NoOne \notin Calls
  BY Committing, LogFacts
<1>1. \A d \in Calls : /\ d # c => work'[d] = work[d]
                       /\ Pending(d)' <=> d # c /\ Pending(d)
                       /\ phase'[d] = "audited" <=> d # c /\ phase[d] = "audited"
  BY <1>0, Finished DEF Finish, TypeOK
<1>2. PICK p \in 1..n : log[p].of = c /\ \A j \in 1..n : log[j].of = c => j = p
  BY <1>0 DEF LogInv, OneRowEach, Commit
<1>3. log[p].effect = work[c].effect /\ (log[p].echo <=> work[c].locks = {})
  BY <1>0, <1>2 DEF LogInv, OneRowEach
<1>4. /\ Len(log') = n /\ DOMAIN log' = 1..n
      /\ \A i \in 1..n : /\ log'[i].of = IF i = p THEN NoOne ELSE log[i].of
                         /\ log'[i].effect = log[i].effect
                         /\ log'[i].echo = log[i].echo
  <2> DEFINE Row == [of : Calls \cup {NoOne}, effect : Effects, echo : BOOLEAN]
  <2>1. log' = [i \in 1..n |-> IF log[i].of = c THEN [log[i] EXCEPT !.of = NoOne] ELSE log[i]]
    BY <1>0 DEF Commit
  <2>2. \A i \in 1..n : log[i] \in Row
    BY <1>0, ElementOfSeq DEF TypeOK
  <2>3. ASSUME NEW i \in 1..n
        PROVE  /\ log'[i].of = IF i = p THEN NoOne ELSE log[i].of
               /\ log'[i].effect = log[i].effect
               /\ log'[i].echo = log[i].echo
    BY <1>2, <2>1, <2>2
  <2>4. Len(log') = n /\ DOMAIN log' = 1..n
    BY <1>0, <2>1
  <2> QED
    BY <2>3, <2>4
<1>5. ASSUME NEW d \in Calls PROVE ReportsItsWrite(d)' /\ OneRowEach(d)'
  <2>1. ReportsItsWrite(d) /\ OneRowEach(d) /\ HoldsItsRow(d)
    BY DEF LogInv, IInv, CallInv
  <2>2. ReportsItsWrite(d)'
    <3> SUFFICES ASSUME Pending(d)', work'[d].locks # {}
                 PROVE  work'[d].row = ReduceRow(rows'[work'[d].key], work'[d].effect)
                        /\ work'[d].effect[2] = work'[d].key
      BY DEF ReportsItsWrite
    <3>1. d # c /\ Pending(d) /\ work'[d] = work[d]
      BY <1>1
    <3>2. work[d].key \in Keys
      BY <1>0, <2>1, <3>1 DEF TypeOK, HoldsItsRow
    <3>3. rows'[work[d].key] = rows[work[d].key]
      BY <3>1, <3>2, Committing
    <3> QED
      BY <2>1, <3>1, <3>3 DEF ReportsItsWrite
  <2>3. CASE d = c
    <3>1. \A i \in 1..n : log'[i].of # c
      BY <1>0, <1>2, <1>4
    <3>2. phase'[d] # "audited"
      BY <1>1, <2>3
    <3> QED
      BY <2>2, <1>4, <2>3, <3>1, <3>2 DEF OneRowEach
  <2>4. CASE d # c
    <3>1. \A i \in 1..n : log'[i].of = d <=> log[i].of = d
      BY <1>0, <1>2, <1>4, <2>4
    <3>2. work'[d] = work[d] /\ (phase'[d] = "audited" <=> phase[d] = "audited")
      BY <1>1, <2>4
    <3>3. ASSUME NEW i \in 1..n, log'[i].of = d
          PROVE  /\ phase'[d] = "audited" /\ log'[i].effect = work'[d].effect
                 /\ log'[i].echo <=> work'[d].locks = {}
                 /\ \A j \in 1..n : log'[j].of = d => j = i
      BY <1>0, <1>4, <2>1, <3>1, <3>2, <3>3 DEF OneRowEach
    <3>4. ASSUME phase'[d] = "audited" PROVE \E i \in 1..n : log'[i].of = d
      BY <1>0, <2>1, <3>1, <3>2, <3>4 DEF OneRowEach
    <3> QED
      BY <2>2, <1>4, <3>3, <3>4 DEF OneRowEach
  <2> QED
    BY <2>2, <2>3, <2>4
<1>6. WritesInOrder'
  BY <1>0, <1>4 DEF LogInv, WritesInOrder, Writes
<1>7. LogRebuildsTables'
  <2> DEFINE W == Wrote'
             e == work[c].effect
  <2>1. \A i \in 1..n : i \in W <=> i \in Wrote \/ (i = p /\ work[c].locks # {})
    BY <1>0, <1>2, <1>3, <1>4 DEF Wrote, Committed
  <2>2. W \subseteq 1..n /\ Wrote \subseteq 1..n /\ p \notin Wrote
    BY <1>0, <1>2, <1>4 DEF Wrote, Committed
  <2>3. Rebuilt(log', W) = Rebuilt(log, W)
    BY <1>0, <1>4, ReplaySame
  <2>4. CASE work[c].locks = {}
    <3>1. W = Wrote
      BY <2>1, <2>2, <2>4
    <3>2. rows' = rows
      BY <2>4 DEF Commit
    <3> QED
      BY <2>3, <3>1, <3>2 DEF LogInv, LogRebuildsTables
  <2>5. CASE work[c].locks # {}
    <3>1. W = Wrote \cup {p}
      BY <2>1, <2>2, <2>5
    <3>2. \A i \in 1..n : log[i].effect[2] \in Keys
      BY <1>0, LogFacts
    <3>3. ASSUME NEW i \in Wrote, i \in 1..n, p < i PROVE log[i].effect[2] # log[p].effect[2]
      <4>1. ~log[i].echo /\ ~log[p].echo /\ log[p].of # NoOne
        BY <1>0, <1>2, <1>3, <2>5 DEF Wrote
      <4> QED
        BY <1>0, <3>3, <4>1 DEF LogInv, WritesInOrder, Writes
    <3>4. Rebuilt(log, Wrote \cup {p}) = Reduce(Rebuilt(log, Wrote), log[p].effect)
      BY <1>0, <2>2, <3>2, <3>3, ReplayCountsLate
    <3>5. Rebuilt(log, Wrote) = rows
      BY DEF LogInv, LogRebuildsTables
    <3>6. rows' = [rows EXCEPT ![work[c].key] = work[c].row]
      BY <2>5 DEF Commit
    <3>7. work[c].key = e[2] /\ work[c].row = ReduceRow(rows[work[c].key], e)
      BY <1>0, <2>5 DEF LogInv, ReportsItsWrite
    <3>8. rows' = Reduce(rows, e)
      BY <3>6, <3>7 DEF Reduce
    <3> QED
      BY <1>3, <2>3, <3>1, <3>4, <3>5, <3>8 DEF LogRebuildsTables
  <2> QED
    BY <2>4, <2>5
<1> QED
  BY <1>5, <1>6, <1>7 DEF LogInv

LEMMA LogInductive == IInv /\ LogInv /\ [Next]_vars => LogInv'
<1> SUFFICES ASSUME IInv, LogInv, [Next]_vars PROVE LogInv'
  OBVIOUS
<1>1. CASE UNCHANGED vars
  BY <1>1 DEF vars, LogInv, ReportsItsWrite, OneRowEach, Pending, WritesInOrder, Writes,
     LogRebuildsTables, Wrote, Committed
<1>2. ASSUME NEW c \in Calls,
             \/ \E u \in Users : UserCalls(c, u)
             \/ \E t \in Tokens : AgentCalls(c, t)
      PROVE  LogInv'
  BY <1>2, EnterLog DEF UserCalls, AgentCalls
<1>3. ASSUME NEW c \in Calls, NEW u \in Users,
             \/ MemberRemove(c, u)
             \/ \E r \in Roles : MemberAdd(c, u, r) \/ MemberUpdateRole(c, u, r)
      PROVE  LogInv'
  BY <1>3, MemberLog, KeysAssumption
<1>4. ASSUME NEW c \in Calls, NEW a \in Agents,
             \/ \E n \in Names : AgentCreate(c, a, n) \/ AgentUpdate(c, a, n)
             \/ AgentRevoke(c, a)
      PROVE  LogInv'
  BY <1>4, AgentLog
<1>5. ASSUME NEW c \in Calls, NEW t \in Tokens,
             \/ \E a \in Agents, s \in Mintable : TokenMint(c, t, a, s)
             \/ TokenRevoke(c, t)
      PROVE  LogInv'
  BY <1>5, TokenLog
<1>6. ASSUME NEW c \in Calls, Audit(c) \/ Commit(c) \/ Abort(c) PROVE LogInv'
  BY <1>6, AuditLog, CommitLog, AbortLog
<1> QED
  BY <1>1, <1>2, <1>3, <1>4, <1>5, <1>6 DEF Next

-----------------------------------------------------------------------------
(* Theorems *)

LEMMA Inductive == IInv /\ [Next]_vars => IInv'
<1> SUFFICES ASSUME IInv, [Next]_vars PROVE IInv'
  OBVIOUS
<1>1. CASE UNCHANGED vars
  BY <1>1 DEF vars, IInv, TypeOK, WorkspaceHasOwner, RowsHaveSource, CallInv, Idle, LocksDisjoint,
     HoldsItsRow, CountedOthers, LeavesOneOrPivot, OneCountedTheOther, CallerKnown,
     WritesKeepSource, Retires, Pending, Owners, Live, LiveIn, HumanAnchor
<1>2. ASSUME NEW c \in Calls,
             \/ \E u \in Users : UserCalls(c, u)
             \/ \E t \in Tokens : AgentCalls(c, t)
      PROVE  IInv'
  BY <1>2, CallerStep
<1>3. ASSUME NEW c \in Calls, NEW u \in Users,
             \/ MemberRemove(c, u)
             \/ \E r \in Roles : MemberAdd(c, u, r) \/ MemberUpdateRole(c, u, r)
      PROVE  IInv'
  BY <1>3, MemberStep, KeysAssumption
<1>4. ASSUME NEW c \in Calls, NEW a \in Agents,
             \/ \E n \in Names : AgentCreate(c, a, n) \/ AgentUpdate(c, a, n)
             \/ AgentRevoke(c, a)
      PROVE  IInv'
  BY <1>4, AgentStep
<1>5. ASSUME NEW c \in Calls, NEW t \in Tokens,
             \/ \E a \in Agents, s \in Mintable : TokenMint(c, t, a, s)
             \/ TokenRevoke(c, t)
      PROVE  IInv'
  BY <1>5, TokenStep
<1>6. ASSUME NEW c \in Calls, Audit(c) \/ Commit(c) \/ Abort(c) PROVE IInv'
  BY <1>6, AuditStep, CommitStep, AbortStep
<1> QED
  BY <1>1, <1>2, <1>3, <1>4, <1>5, <1>6 DEF Next

\* The invariant the others follow from.
THEOREM Invariance == Spec => []IInv
BY InitInv, Inductive, PTL DEF Spec

\* The state of a workspace, its calls and its audit log stay well formed: in
\* particular whoever creates an agent, a user owns it.
THEOREM Typed == Spec => []TypeOK
<1>1. IInv => TypeOK
  BY DEF IInv
<1> QED
  BY <1>1, Invariance, PTL

\* Any number of owners, and any number of overlapping removals and demotions,
\* leave the workspace a live owner.
THEOREM LastOwnerStays == Spec => []WorkspaceHasOwner
<1>1. IInv => WorkspaceHasOwner
  BY DEF IInv
<1> QED
  BY <1>1, Invariance, PTL

\* Every credential that resolves goes back to a live member, with no more
\* scopes than a human minted.
THEOREM HumanSource == Spec => []AuthorityHasHumanSource
<1>1. IInv => AuthorityHasHumanSource
  <2> SUFFICES ASSUME IInv, NEW t \in Tokens, Resolves(t)
               PROVE  Live(root[rows[t].agent]) /\ rows[t].scopes \subseteq rows[source[t]].scopes
    BY DEF AuthorityHasHumanSource
  <2>1. rows[t] # NoRow /\ rows[t].agent \in Agents /\ rows[rows[t].agent] # NoRow
    BY HandlerFacts, KeysAssumption DEF Resolves, Live, LiveIn, Rows, TokenRows
  <2> QED
    BY <2>1 DEF IInv, RowsHaveSource, Resolves
<1> QED
  BY <1>1, Invariance, PTL

LEMMA OnlyCommitWrites ==
  ASSUME Next, ~ \E c \in Calls : Commit(c)
  PROVE  rows' = rows
<1>1. PICK c \in Calls :
        \/ \E u \in Users : UserCalls(c, u) \/ MemberRemove(c, u)
        \/ \E u \in Users, r \in Roles : MemberAdd(c, u, r) \/ MemberUpdateRole(c, u, r)
        \/ \E a \in Agents, n \in Names : AgentCreate(c, a, n) \/ AgentUpdate(c, a, n)
        \/ \E a \in Agents : AgentRevoke(c, a)
        \/ \E t \in Tokens, a \in Agents, s \in Mintable : TokenMint(c, t, a, s)
        \/ \E t \in Tokens : AgentCalls(c, t) \/ TokenRevoke(c, t)
        \/ Audit(c) \/ Abort(c)
  BY DEF Next
<1>2. CASE \/ \E u \in Users : UserCalls(c, u) \/ MemberRemove(c, u)
           \/ \E u \in Users, r \in Roles : MemberAdd(c, u, r) \/ MemberUpdateRole(c, u, r)
  BY <1>2 DEF UserCalls, Enter, MemberRemove, MemberAdd, MemberUpdateRole, Perform
<1>3. CASE \/ \E a \in Agents, n \in Names : AgentCreate(c, a, n) \/ AgentUpdate(c, a, n)
           \/ \E a \in Agents : AgentRevoke(c, a)
  BY <1>3 DEF AgentCreate, AgentUpdate, AgentRevoke, Perform
<1>4. CASE \/ \E t \in Tokens, a \in Agents, s \in Mintable : TokenMint(c, t, a, s)
           \/ \E t \in Tokens : AgentCalls(c, t) \/ TokenRevoke(c, t)
  BY <1>4 DEF TokenMint, AgentCalls, Enter, TokenRevoke, Perform
<1>5. CASE Audit(c) \/ Abort(c)
  BY <1>5 DEF Audit, Abort
<1> QED
  BY <1>1, <1>2, <1>3, <1>4, <1>5

\* No step changes the row of a revoked agent or token.
THEOREM KillsStay == Spec => KillsAreFinal
<1> DEFINE Kept == \A k \in Agents \cup Tokens :
                     rows[k] # NoRow /\ rows[k].dead # 0 => rows'[k] = rows[k]
<1>1. IInv /\ [Next]_vars => [Kept]_vars
  <2> SUFFICES ASSUME IInv, Next PROVE Kept
    BY DEF vars
  <2>1. CASE \E c \in Calls : Commit(c)
    <3>1. PICK c \in Calls : Commit(c)
      BY <2>1
    <3>2. HoldsItsRow(c) /\ Pending(c)
      BY <3>1, Committing DEF IInv, CallInv
    <3>3. Agents \cup Tokens \subseteq Keys /\ (Agents \cup Tokens) \cap Users = {}
      BY KeysAssumption DEF Keys
    <3> QED
      BY <3>1, <3>2, <3>3, Committing DEF HoldsItsRow, Live, LiveIn
  <2>2. CASE ~ \E c \in Calls : Commit(c)
    <3>1. rows' = rows
      BY <2>2, OnlyCommitWrites
    <3> QED
      BY <3>1
  <2> QED
    BY <2>1, <2>2
<1>2. Spec => [][Kept]_vars
  BY <1>1, Invariance, PTL DEF Spec
<1> QED
  BY <1>2 DEF KillsAreFinal

\* However calls overlap, and in whatever order their audit ids and their
\* commits come, replaying the log in id order rebuilds every row.
THEOREM LogRebuilds == Spec => []LogRebuildsTables
<1>1. LogInv => LogRebuildsTables
  BY DEF LogInv
<1>2. Spec => []LogInv
  BY InitLog, LogInductive, Invariance, PTL DEF Spec
<1> QED
  BY <1>1, <1>2, PTL
=============================================================================
