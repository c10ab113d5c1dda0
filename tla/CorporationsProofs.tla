------------------------- MODULE CorporationsProofs -------------------------
(* Proofs about Corporations, for any numbers of users, groups, characters   *)
(* and requests in flight.                                                   *)
EXTENDS Corporations, FiniteSetTheorems, TLAPS

-----------------------------------------------------------------------------
(* The invariant, by parts.                                                  *)

GroupRow == [state : {"unborn", "live", "gone"}, invite : 0 .. MaxRotations, lists : Nat]

RequestRow ==
    [op : {"create", "join"} \cup MemberOps \cup OwnerOps, u : Users,
     g : Groups \cup {None}, ch : Chars \cup {None}, invite : Nat, last : BOOLEAN,
     revoked : SUBSET Chars,
     pc : {"lock", "run", "count", "insert", "linked", "disable"}]

(* The columns of the tables and the state of the requests. *)
Rows ==
    /\ group \in [Groups -> GroupRow]
    /\ role \in [Groups -> [Users -> Roles]]
    /\ corp \in Row /\ link \in [Groups -> Row]
    /\ amb \in [Chars -> Row] /\ via \in [Chars -> Groups \cup {None}]
    /\ req \in [Requests -> RequestRow \cup {None}] /\ served \in Nat

(* A request is about a group, and some are about a character. *)
About ==
    \A r \in Requests : req[r] # None =>
        /\ req[r].op # "create" => req[r].g \in Groups
        /\ req[r].op \in {"link", "add", "remove"} => req[r].ch \in Chars

(* A live group has one owner, any other group has nothing. *)
Owned ==
    \A g \in Groups :
        IF group[g].state = "live"
        THEN \E o \in Users : \A u \in Users : role[g][u] = "owner" <=> u = o
        ELSE /\ \A u \in Users : role[g][u] = "none"
             /\ group[g].lists = 0 /\ link[g] = "none"

(* The lock of a user is held by one request, and the count it made stays    *)
(* true until it inserts.                                                    *)
Counted(r) == HoldsUser(r) /\ req[r].pc = "insert"

QuotaInv ==
    /\ \A q, r \in Requests : HoldsUser(q) /\ HoldsUser(r) /\ q # r => req[q].u # req[r].u
    /\ \A u \in Users : /\ IsFiniteSet(GroupsOf(u))
                        /\ Cardinality(GroupsOf(u)) <= GroupsPerUser
    /\ \A r \in Requests, u \in Users :
          Counted(r) /\ req[r].u = u => Cardinality(GroupsOf(u)) < GroupsPerUser

(* Requests that have counted the lists of g and will insert one. *)
Inserting(g) == {r \in Requests : At(r, "createList", "insert") /\ req[r].g = g}

ListsInv ==
    \A g \in Groups :
        group[g].lists + Cardinality(Inserting(g)) <= ListsPerGroup + Cardinality(Requests) - 1

(* Whatever an unlink is about to revoke is contributed by its group, as long *)
(* as it is enabled.                                                         *)
RevokeInv ==
    \A r \in Requests : At(r, "unlink", "disable") =>
        \A ch \in req[r].revoked : amb[ch] = "on" => via[ch] = req[r].g

CorporationsInv == Rows /\ About /\ Owned /\ QuotaInv /\ ListsInv /\ RevokeInv
-----------------------------------------------------------------------------
(* Rows. *)

\* The empty tables satisfy the invariant.
LEMMA InvInit == CorporationsInit => CorporationsInv
<1> SUFFICES ASSUME CorporationsInit PROVE CorporationsInv
    OBVIOUS
<1>1. Rows /\ About /\ Owned /\ RevokeInv
    BY CorporationsAssumption
       DEF CorporationsInit, Rows, About, Owned, RevokeInv, At, GroupRow, Roles, Row
<1>2. QuotaInv
    <2>1. \A u \in Users : GroupsOf(u) = {}
        BY DEF CorporationsInit, GroupsOf, Members
    <2>2. \A u \in Users : IsFiniteSet(GroupsOf(u)) /\ Cardinality(GroupsOf(u)) = 0
        BY <2>1, FS_EmptySet
    <2>3. \A r \in Requests : ~HoldsUser(r)
        BY DEF CorporationsInit, HoldsUser
    <2> QED
        BY <2>2, <2>3, CorporationsAssumption DEF QuotaInv, Counted
<1>3. ListsInv
    <2>1. \A g \in Groups : Inserting(g) = {}
        BY DEF CorporationsInit, Inserting, At
    <2>2. Cardinality(Requests) \in Nat /\ Cardinality(Requests) # 0
        BY CorporationsAssumption, FS_CardinalityType, FS_EmptySet
    <2>3. \A g \in Groups : Cardinality(Inserting(g)) = 0
        BY <2>1, FS_EmptySet
    <2>4. \A g \in Groups : group[g].lists = 0
        BY DEF CorporationsInit
    <2> QED
        BY <2>2, <2>3, <2>4, CorporationsAssumption DEF ListsInv
<1> QED
    BY <1>1, <1>2, <1>3 DEF CorporationsInv

\* A request goes on to its next statement.
LEMMA GotoRows ==
    ASSUME Rows, About, NEW r \in Requests, req[r] # None,
           NEW pc \in {"lock", "run", "count", "insert", "linked", "disable"}, Goto(r, pc),
           UNCHANGED tables
    PROVE  Rows' /\ About'
<1>1. [req[r] EXCEPT !.pc = pc] \in RequestRow
    BY DEF Rows, RequestRow
<1> QED
    BY <1>1 DEF Rows, About, Goto, tables, RequestRow

\* A request ends.
LEMMA DoneRows ==
    ASSUME Rows, About, NEW r \in Requests, Done(r)
    PROVE  /\ req' \in [Requests -> RequestRow \cup {None}] /\ served' \in Nat
           /\ About'
BY DEF Rows, About, Done

\* Every step leaves rows in the tables and well-formed requests.
LEMMA RowsStep == CorporationsInv /\ [CorporationsNext]_corporationVars => Rows' /\ About'
<1> SUFFICES ASSUME CorporationsInv, [CorporationsNext]_corporationVars
             PROVE  Rows' /\ About'
    OBVIOUS
<1> USE DEF CorporationsInv
<1>1. ASSUME NEW r \in Requests, NEW u \in Users, NEW c \in Calls, Start(r, u, c)
      PROVE  Rows' /\ About'
    <2> DEFINE new == [op |-> c.op, u |-> u, g |-> c.g, ch |-> c.ch,
                       invite |-> IF c.op = "join" THEN group[c.g].invite ELSE 0,
                       last |-> FALSE, revoked |-> {},
                       pc |-> IF c.op \in {"create", "join"} THEN "lock" ELSE "run"]
    <2>1. /\ c.op \in {"create", "join"} \cup MemberOps \cup OwnerOps
          /\ c.g \in Groups \cup {None} /\ c.ch \in Chars \cup {None}
          /\ c.op # "create" => c.g \in Groups
          /\ c.op \in {"link", "add", "remove"} => c.ch \in Chars
        BY DEF Calls, MemberOps, OwnerOps
    <2>2. c.g \in Groups => group[c.g].invite \in Nat
        BY DEF Rows, GroupRow
    <2>3. new \in RequestRow
        BY <2>1, <2>2 DEF RequestRow
    <2>4. req' = [req EXCEPT ![r] = new]
        BY <1>1 DEF Start
    <2> HIDE DEF new
    <2>5. new.g = c.g /\ new.ch = c.ch /\ new.op = c.op
        BY DEF new
    <2>6. served' = served + 1 /\ UNCHANGED tables
        BY <1>1 DEF Start
    <2>7. Rows'
        BY <2>3, <2>4, <2>6 DEF Rows, tables
    <2>8. About'
        BY <2>1, <2>4, <2>5 DEF About, Rows
    <2> QED
        BY <2>7, <2>8
<1>2. ASSUME NEW r \in Requests, LockUserForQuota(r) \/ UpsertCorp(r)
      PROVE  Rows' /\ About'
    BY <1>2, GotoRows DEF LockUserForQuota, UpsertCorp, At
<1>3. ASSUME NEW r \in Requests, RequireGroupQuota(r) \/ CountLists(r) \/ Rollback(r)
      PROVE  Rows' /\ About'
    <2>1. CASE Goto(r, "insert") /\ req[r] # None
        BY <1>3, <2>1, GotoRows DEF RequireGroupQuota, CountLists, Rollback
    <2>2. CASE Done(r)
        BY <1>3, <2>2, DoneRows DEF RequireGroupQuota, CountLists, Rollback, Rows, tables
    <2> QED
        BY <1>3, <2>1, <2>2 DEF RequireGroupQuota, CountLists, Rollback, At
<1>4. ASSUME NEW r \in Requests, Done(r),
             group' \in [Groups -> GroupRow], role' \in [Groups -> [Users -> Roles]],
             corp' \in Row, link' \in [Groups -> Row], amb' \in [Chars -> Row],
             via' \in [Chars -> Groups \cup {None}]
      PROVE  Rows' /\ About'
    BY <1>4, DoneRows DEF Rows
<1>5. ASSUME NEW r \in Requests, NEW g \in Groups, Create(r, g)
      PROVE  Rows' /\ About'
    <2>1. [group[g] EXCEPT !.state = "live"] \in GroupRow
        BY DEF Rows, GroupRow
    <2> QED
        BY <1>4, <1>5, <2>1 DEF Create, Rows, Roles
<1>6. ASSUME NEW r \in Requests, Join(r) \/ Leave(r)
      PROVE  Rows' /\ About'
    <2>1. PICK g \in Groups, u \in Users : g = req[r].g /\ u = req[r].u
        BY <1>6 DEF Join, Leave, At, About, Rows, RequestRow
    <2>2. role' \in [Groups -> [Users -> Roles]]
        BY <1>6, <2>1 DEF Join, Leave, Rows, Roles
    <2> QED
        BY <1>4, <1>6, <2>2 DEF Join, Leave, Rows
<1>7. ASSUME NEW r \in Requests, DeleteGroup(r)
      PROVE  Rows' /\ About'
    <2>1. \A g \in Groups : [group[g] EXCEPT !.state = "gone", !.lists = 0] \in GroupRow
        BY DEF Rows, GroupRow
    <2>2. req[r].g \in Groups
        BY <1>7 DEF DeleteGroup, At, About
    <2> QED
        BY <1>4, <1>7, <2>1, <2>2 DEF DeleteGroup, Rows, Roles, Row
<1>8. ASSUME NEW r \in Requests, RotateInvite(r) \/ InsertList(r) \/ ArchiveList(r)
      PROVE  Rows' /\ About'
    <2>1. PICK g \in Groups : g = req[r].g
        BY <1>8 DEF RotateInvite, InsertList, ArchiveList, At, About
    <2>2. /\ group[g].invite < MaxRotations => [group[g] EXCEPT !.invite = @ + 1] \in GroupRow
          /\ [group[g] EXCEPT !.lists = @ + 1] \in GroupRow
          /\ group[g].lists > 0 => [group[g] EXCEPT !.lists = @ - 1] \in GroupRow
          /\ [group[g] EXCEPT !.invite = @] \in GroupRow
        BY CorporationsAssumption DEF Rows, GroupRow
    <2>3. group' \in [Groups -> GroupRow]
        BY <1>8, <2>1, <2>2 DEF RotateInvite, InsertList, ArchiveList, Rows
    <2> QED
        BY <1>4, <1>8, <2>3 DEF RotateInvite, InsertList, ArchiveList, Rows
<1>9. ASSUME NEW r \in Requests, LinkCorp(r) \/ AddAmbassador(r) \/ RemoveAmbassador(r)
      PROVE  Rows' /\ About'
    <2>1. req[r].g \in Groups /\ req[r].ch \in Chars
        BY <1>9 DEF LinkCorp, AddAmbassador, RemoveAmbassador, At, About
    <2> QED
        BY <1>4, <1>9, <2>1 DEF LinkCorp, AddAmbassador, RemoveAmbassador, Rows, Row
<1>10. ASSUME NEW r \in Requests, UnlinkCorp(r)
       PROVE  Rows' /\ About'
    <2>1. PICK S \in SUBSET Chars, b \in BOOLEAN :
             req' = [req EXCEPT ![r].pc = "disable", ![r].revoked = S, ![r].last = b]
        BY <1>10 DEF UnlinkCorp
    <2>2. [[[req[r] EXCEPT !.pc = "disable"] EXCEPT !.revoked = S] EXCEPT !.last = b] \in RequestRow
        BY <1>10 DEF UnlinkCorp, At, Rows, RequestRow
    <2>3. req' = [req EXCEPT ![r] = [[[req[r] EXCEPT !.pc = "disable"]
                                            EXCEPT !.revoked = S] EXCEPT !.last = b]]
        BY <2>1 DEF Rows
    <2>4. req' \in [Requests -> RequestRow \cup {None}]
        BY <2>2, <2>3 DEF Rows
    <2>5. /\ \A q \in Requests : q # r => req'[q] = req[q]
          /\ req'[r].op = req[r].op /\ req'[r].g = req[r].g /\ req'[r].ch = req[r].ch
        <3>1. req[r] \in RequestRow
            BY <1>10 DEF UnlinkCorp, At, Rows
        <3>2. req'[r] = [[[req[r] EXCEPT !.pc = "disable"]
                             EXCEPT !.revoked = S] EXCEPT !.last = b]
            BY <2>3 DEF Rows
        <3>3. \A q \in Requests : q # r => req'[q] = req[q]
            BY <2>3 DEF Rows
        <3> QED
            BY <3>1, <3>2, <3>3 DEF RequestRow
    <2> QED
        BY <1>10, <2>4, <2>5 DEF UnlinkCorp, Rows, About, At, tables
<1>11. ASSUME NEW r \in Requests, DisableCorp(r)
       PROVE  Rows' /\ About'
    BY <1>4, <1>11 DEF DisableCorp, Unlinked, Rows, Row
<1>12. CASE UNCHANGED corporationVars
    BY <1>12 DEF corporationVars, Rows, About
<1> QED
    BY <1>1, <1>2, <1>3, <1>5, <1>6, <1>7, <1>8, <1>9, <1>10, <1>11, <1>12
       DEF CorporationsNext, Handler
-----------------------------------------------------------------------------
(* Owners. *)

\* Nothing belongs to a group that is not live.
LEMMA MemberIsLive ==
    ASSUME Rows, Owned, NEW g \in Groups, NEW u \in Users
    PROVE  /\ u \in Members(g) => group[g].state = "live"
           /\ group[g].lists > 0 => group[g].state = "live"
           /\ link[g] # "none" => group[g].state = "live"
BY DEF Owned, Members

\* A live group keeps exactly one owner.
LEMMA OwnedStep == CorporationsInv /\ [CorporationsNext]_corporationVars => Owned'
<1> SUFFICES ASSUME CorporationsInv, [CorporationsNext]_corporationVars PROVE Owned'
    OBVIOUS
<1> USE DEF CorporationsInv
<1>1. ASSUME UNCHANGED <<role, link>>,
             \A g \in Groups : /\ group'[g].state = group[g].state
                               /\ group[g].state # "live" => group'[g].lists = 0
      PROVE  Owned'
    BY <1>1 DEF Owned
<1>2. ASSUME NEW r \in Requests, NEW u \in Users, NEW c \in Calls, Start(r, u, c)
      PROVE  Owned'
    BY <1>1, <1>2 DEF Start, tables, Owned
<1>3. ASSUME NEW r \in Requests,
             \/ LockUserForQuota(r) \/ RequireGroupQuota(r) \/ CountLists(r) \/ Rollback(r)
             \/ UpsertCorp(r) \/ UnlinkCorp(r) \/ AddAmbassador(r) \/ RemoveAmbassador(r)
      PROVE  Owned'
    BY <1>1, <1>3 DEF LockUserForQuota, RequireGroupQuota, CountLists, Rollback, UpsertCorp,
                      UnlinkCorp, AddAmbassador, RemoveAmbassador, tables, Owned
<1>4. ASSUME NEW r \in Requests, NEW g \in Groups, Create(r, g)
      PROVE  Owned'
    <2>1. PICK u \in Users : u = req[r].u
        BY <1>4 DEF Create, At, Rows, RequestRow
    <2>2. /\ group'[g].state = "live"
          /\ \A v \in Users : role'[g][v] = "owner" <=> v = u
        BY <1>4, <2>1 DEF Create, Owned, Rows, GroupRow
    <2>3. \A h \in Groups : h # g => group'[h] = group[h] /\ role'[h] = role[h]
        BY <1>4 DEF Create, Rows
    <2> QED
        BY <1>4, <2>2, <2>3 DEF Create, Owned
<1>5. ASSUME NEW r \in Requests, Join(r)
      PROVE  Owned'
    <2>1. PICK g \in Groups, u \in Users : g = req[r].g /\ u = req[r].u
        BY <1>5 DEF Join, At, About, Rows, RequestRow
    <2>2. CASE role' = role
        BY <1>1, <1>5, <2>2 DEF Join, Owned
    <2>3. CASE /\ role' = [role EXCEPT ![g][u] = "member"]
               /\ group[g].state = "live" /\ role[g][u] = "none"
        <3>1. \A h \in Groups, v \in Users : (role'[h][v] = "owner") <=> (role[h][v] = "owner")
            BY <2>3 DEF Rows
        <3>2. \A h \in Groups : h # g => role'[h] = role[h]
            BY <2>3 DEF Rows
        <3> QED
            BY <1>5, <2>3, <3>1, <3>2 DEF Join, Owned
    <2> QED
        BY <1>5, <2>1, <2>2, <2>3 DEF Join
<1>6. ASSUME NEW r \in Requests, Leave(r)
      PROVE  Owned'
    <2>1. PICK g \in Groups, u \in Users : g = req[r].g /\ u = req[r].u
        BY <1>6 DEF Leave, At, About, Rows, RequestRow
    <2>2. CASE LastOwner(g, u)
        BY <1>1, <1>6, <2>1, <2>2 DEF Leave, Owned
    <2>3. CASE ~LastOwner(g, u)
        <3>1. role' = [role EXCEPT ![g][u] = "none"]
            BY <1>6, <2>1, <2>3 DEF Leave
        <3>2. group[g].state = "live" => role[g][u] # "owner"
            BY <2>3 DEF LastOwner, Owned
        <3>3. \A h \in Groups, v \in Users :
                role'[h][v] = IF h = g /\ v = u THEN "none" ELSE role[h][v]
            BY <3>1 DEF Rows
        <3> QED
            BY <1>6, <3>2, <3>3 DEF Leave, Owned
    <2> QED
        BY <2>2, <2>3
<1>7. ASSUME NEW r \in Requests, DeleteGroup(r)
      PROVE  Owned'
    <2>1. PICK g \in Groups : g = req[r].g
        BY <1>7 DEF DeleteGroup, At, About
    <2>2. /\ group'[g].state = "gone" /\ group'[g].lists = 0 /\ link'[g] = "none"
          /\ \A u \in Users : role'[g][u] = "none"
        BY <1>7, <2>1 DEF DeleteGroup, Rows, GroupRow
    <2>3. \A h \in Groups : h # g => /\ group'[h] = group[h] /\ role'[h] = role[h]
                                     /\ link'[h] = link[h]
        BY <1>7, <2>1 DEF DeleteGroup, Rows
    <2> QED
        BY <2>2, <2>3 DEF Owned
<1>8. ASSUME NEW r \in Requests, RotateInvite(r) \/ InsertList(r) \/ ArchiveList(r)
      PROVE  Owned'
    <2>1. PICK g \in Groups, u \in Users : g = req[r].g /\ u = req[r].u
        BY <1>8 DEF RotateInvite, InsertList, ArchiveList, At, About, Rows, RequestRow
    <2>2. \A h \in Groups : h # g => group'[h] = group[h]
        BY <1>8, <2>1 DEF RotateInvite, InsertList, ArchiveList, Rows
    <2>3. /\ group'[g].state = group[g].state
          /\ RotateInvite(r) => group'[g].lists = group[g].lists
        BY <1>8, <2>1 DEF RotateInvite, InsertList, ArchiveList, Rows, GroupRow
    <2>4. ~RotateInvite(r) => group[g].state = "live"
        BY <1>8, <2>1, MemberIsLive DEF InsertList, ArchiveList
    <2> QED
        BY <1>1, <1>8, <2>2, <2>3, <2>4 DEF RotateInvite, InsertList, ArchiveList, Owned
<1>9. ASSUME NEW r \in Requests, LinkCorp(r) \/ DisableCorp(r)
      PROVE  Owned'
    <2>1. PICK g \in Groups, u \in Users : g = req[r].g /\ u = req[r].u
        BY <1>9 DEF LinkCorp, DisableCorp, At, About, Rows, RequestRow
    <2>2. \A h \in Groups : link'[h] # link[h] => group[h].state = "live"
        BY <1>9, <2>1, MemberIsLive
           DEF LinkCorp, DisableCorp, Unlinked, IsGroupMember, Rows, Row
    <2> QED
        BY <1>9, <2>2 DEF LinkCorp, DisableCorp, Owned
<1>10. CASE UNCHANGED corporationVars
    BY <1>10 DEF corporationVars, Owned
<1> QED
    BY <1>2, <1>3, <1>4, <1>5, <1>6, <1>7, <1>8, <1>9, <1>10
       DEF CorporationsNext, Handler
-----------------------------------------------------------------------------
(* The quota of a user. *)

\* Nobody joins, and nobody takes the lock of a user or passes the count.
LEMMA QuotaQuiet ==
    ASSUME CorporationsInv,
           \A g \in Groups : Members(g)' \subseteq Members(g),
           \A r \in Requests : HoldsUser(r)' => /\ HoldsUser(r) /\ req'[r].u = req[r].u
                                                /\ Counted(r)' => Counted(r)
    PROVE  QuotaInv'
<1> USE DEF CorporationsInv
<1>1. ASSUME NEW u \in Users
      PROVE  /\ IsFiniteSet(GroupsOf(u)')
             /\ Cardinality(GroupsOf(u)') <= Cardinality(GroupsOf(u))
             /\ Cardinality(GroupsOf(u)') \in Nat /\ Cardinality(GroupsOf(u)) \in Nat
    <2>1. GroupsOf(u)' \in SUBSET GroupsOf(u) /\ IsFiniteSet(GroupsOf(u))
        BY DEF GroupsOf, QuotaInv
    <2> QED
        BY <2>1, FS_Subset, FS_CardinalityType
<1>2. \A u \in Users : IsFiniteSet(GroupsOf(u)') /\ Cardinality(GroupsOf(u)') <= GroupsPerUser
    BY <1>1, CorporationsAssumption DEF QuotaInv
<1>3. ASSUME NEW r \in Requests, NEW u \in Users, Counted(r)', req'[r].u = u
      PROVE  Cardinality(GroupsOf(u)') < GroupsPerUser
    <2>1. Counted(r) /\ req[r].u = u
        BY <1>3 DEF Counted
    <2> QED
        BY <1>1, <2>1, CorporationsAssumption DEF QuotaInv
<1>4. \A q, r \in Requests : HoldsUser(q)' /\ HoldsUser(r)' /\ q # r => req'[q].u # req'[r].u
    BY DEF QuotaInv
<1> QED
    BY <1>2, <1>3, <1>4 DEF QuotaInv

\* What a request becomes when it goes on, ends or is left alone.
LEMMA GotoReq ==
    ASSUME Rows, NEW r \in Requests, req[r] # None, NEW pc, Goto(r, pc)
    PROVE  /\ req'[r] = [req[r] EXCEPT !.pc = pc]
           /\ req'[r].pc = pc /\ req'[r].op = req[r].op /\ req'[r].u = req[r].u
           /\ req'[r].g = req[r].g /\ req'[r].revoked = req[r].revoked
           /\ \A q \in Requests : q # r => req'[q] = req[q]
<1>1. req[r] \in RequestRow
    BY DEF Rows
<1>2. /\ req'[r] = [req[r] EXCEPT !.pc = pc]
      /\ \A q \in Requests : q # r => req'[q] = req[q]
    BY DEF Goto, Rows
<1> QED
    BY <1>1, <1>2 DEF RequestRow

\* A request that ends is gone, the others stay.
LEMMA DoneReq ==
    ASSUME Rows, NEW r \in Requests, Done(r)
    PROVE  /\ req'[r] = None
           /\ \A q \in Requests : q # r => req'[q] = req[q]
BY DEF Done, Rows

\* No user ever belongs to more groups than allowed.
LEMMA QuotaStep == CorporationsInv /\ [CorporationsNext]_corporationVars => QuotaInv'
<1> SUFFICES ASSUME CorporationsInv, [CorporationsNext]_corporationVars PROVE QuotaInv'
    OBVIOUS
<1> USE DEF CorporationsInv
<1>1. ASSUME NEW r \in Requests, Done(r),
             \A g \in Groups : Members(g)' \subseteq Members(g)
      PROVE  QuotaInv'
    BY <1>1, DoneReq, QuotaQuiet DEF HoldsUser, Counted
<1>2. ASSUME NEW r \in Requests, NEW u \in Users, NEW c \in Calls, Start(r, u, c)
      PROVE  QuotaInv'
    <2>1. /\ \A q \in Requests : q # r => req'[q] = req[q]
          /\ req'[r].pc \in {"lock", "run"}
        BY <1>2 DEF Start, Rows
    <2>2. role' = role
        BY <1>2 DEF Start, tables
    <2> QED
        BY <2>1, <2>2, QuotaQuiet DEF HoldsUser, Counted, Members
<1>3. ASSUME NEW r \in Requests, NEW pc \in {"insert", "linked"}, Goto(r, pc), req[r] # None,
             req[r].op \notin {"create", "join"}, UNCHANGED tables
      PROVE  QuotaInv'
    <2>1. ~HoldsUser(r)'
        BY <1>3, GotoReq DEF HoldsUser
    <2> QED
        BY <1>3, <2>1, GotoReq, QuotaQuiet DEF HoldsUser, Counted, Members, tables
<1>4. ASSUME NEW r \in Requests, UpsertCorp(r) \/ CountLists(r)
      PROVE  QuotaInv'
    <2>1. UNCHANGED tables /\ req[r] # None /\ req[r].op \notin {"create", "join"}
        BY <1>4 DEF UpsertCorp, CountLists, At
    <2>2. Goto(r, "linked") \/ Goto(r, "insert") \/ Done(r)
        BY <1>4 DEF UpsertCorp, CountLists
    <2> QED
        BY <1>1, <1>3, <2>1, <2>2 DEF tables, Members
<1>5. ASSUME NEW r \in Requests, LockUserForQuota(r)
      PROVE  QuotaInv'
    <2>1. /\ req[r] # None /\ Goto(r, "count") /\ UNCHANGED tables
          /\ \A q \in Requests : HoldsUser(q) => req[q].u # req[r].u
        BY <1>5 DEF LockUserForQuota, At
    <2>2. /\ \A q \in Requests : q # r => (HoldsUser(q)' <=> HoldsUser(q)) /\ req'[q] = req[q]
          /\ req'[r].u = req[r].u /\ ~Counted(r)'
        BY <2>1, GotoReq DEF HoldsUser, Counted
    <2>3. \A u \in Users : GroupsOf(u)' = GroupsOf(u)
        BY <2>1 DEF GroupsOf, Members, tables
    <2>4. \A q \in Requests : Counted(q)' => Counted(q) /\ req'[q].u = req[q].u
        BY <2>2 DEF Counted
    <2>5. \A p, q \in Requests : HoldsUser(p)' /\ HoldsUser(q)' /\ p # q => req'[p].u # req'[q].u
        BY <2>1, <2>2 DEF QuotaInv
    <2> QED
        BY <2>3, <2>4, <2>5 DEF QuotaInv
<1>6. ASSUME NEW r \in Requests, RequireGroupQuota(r)
      PROVE  QuotaInv'
    <2>1. CASE Done(r)
        BY <1>1, <1>6, <2>1 DEF RequireGroupQuota, tables, Members
    <2>2. CASE Goto(r, "insert") /\ CheckGroupQuota(req[r].u)
        <3>1. HoldsUser(r) /\ req[r] # None
            BY <1>6 DEF RequireGroupQuota, At, HoldsUser
        <3>2. \A q \in Requests : /\ HoldsUser(q)' => HoldsUser(q)
                                  /\ req'[q].u = req[q].u
                                  /\ q # r => (Counted(q)' => Counted(q))
            BY <2>2, <3>1, GotoReq DEF HoldsUser, Counted
        <3>3. \A u \in Users : GroupsOf(u)' = GroupsOf(u)
            BY <1>6 DEF RequireGroupQuota, GroupsOf, Members, tables
        <3>4. \A q \in Requests, u \in Users :
                Counted(q)' /\ req'[q].u = u => Cardinality(GroupsOf(u)) < GroupsPerUser
            BY <2>2, <3>2 DEF QuotaInv, CheckGroupQuota
        <3>5. \A p, q \in Requests : HoldsUser(p)' /\ HoldsUser(q)' /\ p # q
                                        => req'[p].u # req'[q].u
            BY <3>2 DEF QuotaInv
        <3> QED
            BY <3>3, <3>4, <3>5 DEF QuotaInv
    <2> QED
        BY <1>6, <2>1, <2>2 DEF RequireGroupQuota
<1>7. ASSUME NEW r \in Requests, Done(r), Counted(r), NEW g \in Groups,
             Members(g)' \subseteq Members(g) \cup {req[r].u},
             \A h \in Groups : h # g => Members(h)' = Members(h)
      PROVE  QuotaInv'
    <2>1. req[r].u \in Users
        BY <1>7 DEF Counted, HoldsUser, Rows, RequestRow
    <2>2. ASSUME NEW u \in Users, u # req[r].u
          PROVE  /\ IsFiniteSet(GroupsOf(u)')
                 /\ Cardinality(GroupsOf(u)') <= Cardinality(GroupsOf(u))
                 /\ Cardinality(GroupsOf(u)') \in Nat /\ Cardinality(GroupsOf(u)) \in Nat
        <3>1. GroupsOf(u)' \in SUBSET GroupsOf(u) /\ IsFiniteSet(GroupsOf(u))
            BY <1>7, <2>2 DEF GroupsOf, QuotaInv
        <3> QED
            BY <3>1, FS_Subset, FS_CardinalityType
    <2>3. ASSUME NEW u \in Users, u = req[r].u
          PROVE  IsFiniteSet(GroupsOf(u)') /\ Cardinality(GroupsOf(u)') <= GroupsPerUser
        <3>1. /\ GroupsOf(u)' \in SUBSET (GroupsOf(u) \cup {g})
              /\ IsFiniteSet(GroupsOf(u)) /\ Cardinality(GroupsOf(u)) < GroupsPerUser
            BY <1>7, <2>3 DEF GroupsOf, QuotaInv
        <3>2. /\ IsFiniteSet(GroupsOf(u) \cup {g})
              /\ Cardinality(GroupsOf(u) \cup {g}) <= Cardinality(GroupsOf(u)) + 1
              /\ Cardinality(GroupsOf(u)) \in Nat
            BY <3>1, FS_AddElement, FS_CardinalityType
        <3>3. /\ IsFiniteSet(GroupsOf(u)') /\ Cardinality(GroupsOf(u)') \in Nat
              /\ Cardinality(GroupsOf(u)') <= Cardinality(GroupsOf(u) \cup {g})
              /\ Cardinality(GroupsOf(u) \cup {g}) \in Nat
            BY <3>1, <3>2, FS_Subset, FS_CardinalityType
        <3> QED
            BY <3>1, <3>2, <3>3, CorporationsAssumption
    <2>4. \A u \in Users : IsFiniteSet(GroupsOf(u)') /\ Cardinality(GroupsOf(u)') <= GroupsPerUser
        BY <2>2, <2>3, CorporationsAssumption DEF QuotaInv
    <2>5. \A q \in Requests : HoldsUser(q)' => /\ q # r /\ HoldsUser(q) /\ req'[q] = req[q]
                                               /\ req[q].u # req[r].u
        BY <1>7, DoneReq DEF HoldsUser, Counted, QuotaInv
    <2>6. \A p, q \in Requests : HoldsUser(p)' /\ HoldsUser(q)' /\ p # q => req'[p].u # req'[q].u
        BY <2>5 DEF QuotaInv
    <2>7. ASSUME NEW q \in Requests, NEW u \in Users, Counted(q)', req'[q].u = u
          PROVE  Cardinality(GroupsOf(u)') < GroupsPerUser
        <3>1. Counted(q) /\ req[q].u = u /\ u # req[r].u
            BY <2>5, <2>7 DEF Counted
        <3> QED
            BY <2>2, <3>1, CorporationsAssumption DEF QuotaInv
    <2> QED
        BY <2>4, <2>6, <2>7 DEF QuotaInv
<1>8. ASSUME NEW r \in Requests, NEW g \in Groups, Create(r, g)
      PROVE  QuotaInv'
    <2>1. Counted(r) /\ req[r].u \in Users
        BY <1>8 DEF Create, At, Counted, HoldsUser, Rows, RequestRow
    <2>2. \A h \in Groups, v \in Users : h # g \/ v # req[r].u => role'[h][v] = role[h][v]
        BY <1>8, <2>1 DEF Create, Rows
    <2> QED
        BY <1>7, <1>8, <2>1, <2>2 DEF Create, Members
<1>9. ASSUME NEW r \in Requests, Join(r)
      PROVE  QuotaInv'
    <2>1. Counted(r) /\ req[r].u \in Users /\ req[r].g \in Groups
        BY <1>9 DEF Join, At, About, Counted, HoldsUser, Rows, RequestRow
    <2>2. \A h \in Groups, v \in Users : h # req[r].g \/ v # req[r].u => role'[h][v] = role[h][v]
        BY <1>9, <2>1 DEF Join, Rows
    <2> QED
        BY <1>7, <1>9, <2>1, <2>2 DEF Join, Members
<1>10. ASSUME NEW r \in Requests, Leave(r) \/ DeleteGroup(r)
       PROVE  QuotaInv'
    <2>1. \A g \in Groups, u \in Users : role'[g][u] \in {role[g][u], "none"}
        <3>1. req[r].g \in Groups /\ req[r].u \in Users
            BY <1>10 DEF Leave, DeleteGroup, At, About, Rows, RequestRow
        <3> QED
            BY <1>10, <3>1 DEF Leave, DeleteGroup, Rows
    <2> QED
        BY <1>1, <1>10, <2>1 DEF Leave, DeleteGroup, Members
<1>11. ASSUME NEW r \in Requests,
              \/ RotateInvite(r) \/ InsertList(r) \/ ArchiveList(r) \/ LinkCorp(r)
              \/ AddAmbassador(r) \/ RemoveAmbassador(r) \/ DisableCorp(r) \/ Rollback(r)
       PROVE  QuotaInv'
    <2>1. Done(r) /\ role' = role
        BY <1>11 DEF RotateInvite, InsertList, ArchiveList, LinkCorp, AddAmbassador,
                     RemoveAmbassador, DisableCorp, Rollback, tables
    <2> QED
        BY <1>1, <2>1 DEF Members
<1>12. ASSUME NEW r \in Requests, UnlinkCorp(r)
       PROVE  QuotaInv'
    <2>1. /\ \A q \in Requests : q # r => req'[q] = req[q]
          /\ req'[r].pc = "disable"
        BY <1>12 DEF UnlinkCorp, At, Rows, RequestRow
    <2> QED
        BY <1>12, <2>1, QuotaQuiet DEF UnlinkCorp, tables, HoldsUser, Counted, Members
<1>13. CASE UNCHANGED corporationVars
    BY <1>13, QuotaQuiet DEF corporationVars, HoldsUser, Counted, Members
<1> QED
    BY <1>2, <1>4, <1>5, <1>6, <1>8, <1>9, <1>10, <1>11, <1>12, <1>13
       DEF CorporationsNext, Handler
-----------------------------------------------------------------------------
(* The quota of a group's lists. *)

\* The requests about to insert are among the requests.
LEMMA InsertingFinite ==
    ASSUME NEW g
    PROVE  /\ IsFiniteSet(Inserting(g)) /\ Cardinality(Inserting(g)) \in Nat
           /\ Cardinality(Inserting(g)) <= Cardinality(Requests)
           /\ Cardinality(Requests) \in Nat
           /\ Inserting(g) \subseteq Requests
<1>1. Inserting(g) \in SUBSET Requests
    BY DEF Inserting
<1> QED
    BY <1>1, CorporationsAssumption, FS_Subset, FS_CardinalityType

\* No new list, and nobody passes the count.
LEMMA ListsQuiet ==
    ASSUME CorporationsInv, Rows',
           \A g \in Groups : group'[g].lists <= group[g].lists,
           \A g \in Groups : Inserting(g)' \subseteq Inserting(g)
    PROVE  ListsInv'
<1> SUFFICES ASSUME NEW g \in Groups
             PROVE  group'[g].lists + Cardinality(Inserting(g)')
                        <= ListsPerGroup + Cardinality(Requests) - 1
    BY DEF ListsInv
<1>1. /\ Cardinality(Inserting(g)') \in Nat /\ Cardinality(Inserting(g)) \in Nat
      /\ Cardinality(Inserting(g)') <= Cardinality(Inserting(g))
    <2>1. Inserting(g)' \in SUBSET Inserting(g) /\ IsFiniteSet(Inserting(g))
        BY InsertingFinite
    <2> QED
        BY <2>1, FS_Subset, FS_CardinalityType
<1>2. group[g].lists \in Nat /\ group'[g].lists \in Nat
    BY DEF CorporationsInv, Rows, GroupRow
<1>3. group[g].lists + Cardinality(Inserting(g)) <= ListsPerGroup + Cardinality(Requests) - 1
    BY DEF CorporationsInv, ListsInv
<1> QED
    BY <1>1, <1>2, <1>3, InsertingFinite, CorporationsAssumption

\* A group exceeds the limit by at most one list for each other request.
LEMMA ListsStep ==
    CorporationsInv /\ Rows' /\ [CorporationsNext]_corporationVars => ListsInv'
<1> SUFFICES ASSUME CorporationsInv, Rows', [CorporationsNext]_corporationVars PROVE ListsInv'
    OBVIOUS
<1> USE DEF CorporationsInv
<1>1. ASSUME NEW r \in Requests, Done(r), \A g \in Groups : group'[g].lists <= group[g].lists
      PROVE  ListsInv'
    BY <1>1, DoneReq, ListsQuiet DEF Inserting, At
<1>2. ASSUME NEW r \in Requests, NEW u \in Users, NEW c \in Calls, Start(r, u, c)
      PROVE  ListsInv'
    <2>1. /\ \A q \in Requests : q # r => req'[q] = req[q]
          /\ req'[r].pc \in {"lock", "run"}
        BY <1>2 DEF Start, Rows
    <2>2. group' = group
        BY <1>2 DEF Start, tables
    <2>3. \A g \in Groups : group'[g].lists <= group[g].lists
        BY <2>2 DEF Rows, GroupRow
    <2> QED
        BY <2>1, <2>3, ListsQuiet DEF Inserting, At
<1>3. ASSUME NEW r \in Requests, NEW pc, Goto(r, pc), req[r] # None,
             req[r].op # "createList", UNCHANGED tables
      PROVE  ListsInv'
    <2>1. \A g \in Groups : group'[g].lists <= group[g].lists
        BY <1>3 DEF Rows, GroupRow, tables
    <2> QED
        BY <1>3, <2>1, GotoReq, ListsQuiet DEF Inserting, At
<1>4. ASSUME NEW r \in Requests, LockUserForQuota(r) \/ RequireGroupQuota(r) \/ UpsertCorp(r)
      PROVE  ListsInv'
    <2>1. req[r] # None /\ req[r].op # "createList" /\ UNCHANGED tables
        BY <1>4 DEF LockUserForQuota, RequireGroupQuota, UpsertCorp, At
    <2>2. Done(r) \/ \E pc : Goto(r, pc)
        BY <1>4 DEF LockUserForQuota, RequireGroupQuota, UpsertCorp
    <2>3. \A g \in Groups : group'[g].lists <= group[g].lists
        BY <2>1 DEF Rows, GroupRow, tables
    <2> QED
        BY <1>1, <1>3, <2>1, <2>2, <2>3
<1>5. ASSUME NEW r \in Requests, CountLists(r)
      PROVE  ListsInv'
    <2>1. PICK g \in Groups : g = req[r].g
        BY <1>5 DEF CountLists, At, About
    <2>2. req[r] # None /\ UNCHANGED tables
        BY <1>5 DEF CountLists, At
    <2>3. CASE Done(r)
        BY <1>1, <2>2, <2>3 DEF Rows, GroupRow, tables
    <2>4. CASE Goto(r, "insert") /\ CheckListsQuota(g)
        <3>1. group[g].lists < ListsPerGroup /\ group[g].lists \in Nat
            BY <2>4 DEF CheckListsQuota, Rows, GroupRow
        <3>2. /\ Cardinality(Inserting(g)') \in Nat
              /\ Cardinality(Inserting(g)') <= Cardinality(Requests)
              /\ Cardinality(Requests) \in Nat
            <4>1. Inserting(g)' \in SUBSET Requests
                BY DEF Inserting
            <4> QED
                BY <4>1, CorporationsAssumption, FS_Subset, FS_CardinalityType
        <3>3. group'[g].lists + Cardinality(Inserting(g)')
                  <= ListsPerGroup + Cardinality(Requests) - 1
            BY <2>2, <3>1, <3>2, CorporationsAssumption DEF tables
        <3>4. \A h \in Groups : h # g => Inserting(h)' = Inserting(h)
            <4>1. /\ req'[r].g = g /\ req[r].g = g
                  /\ \A q \in Requests : q # r => req'[q] = req[q]
                BY <2>1, <2>2, <2>4, GotoReq
            <4> QED
                BY <4>1 DEF Inserting, At
        <3>5. \A h \in Groups : h # g => group'[h].lists + Cardinality(Inserting(h)')
                                            <= ListsPerGroup + Cardinality(Requests) - 1
            BY <2>2, <3>4 DEF ListsInv, tables
        <3> QED
            BY <3>3, <3>5 DEF ListsInv
    <2> QED
        BY <1>5, <2>1, <2>3, <2>4 DEF CountLists
<1>6. ASSUME NEW r \in Requests, InsertList(r)
      PROVE  ListsInv'
    <2>1. PICK g \in Groups : g = req[r].g
        BY <1>6 DEF InsertList, At, About
    <2>2. /\ group'[g].lists = group[g].lists + 1 /\ group[g].lists \in Nat
          /\ \A h \in Groups : h # g => group'[h] = group[h]
        BY <1>6, <2>1 DEF InsertList, Rows, GroupRow
    <2>3. r \in Inserting(g) /\ Done(r)
        BY <1>6, <2>1 DEF InsertList, Inserting
    <2>4. Inserting(g)' = Inserting(g) \ {r}
        BY <2>3, DoneReq DEF Inserting, At
    <2>5. \A h \in Groups : h # g => Inserting(h)' = Inserting(h)
        BY <2>1, <2>3, DoneReq DEF Inserting, At
    <2>6. /\ Cardinality(Inserting(g)') = Cardinality(Inserting(g)) - 1
          /\ Cardinality(Inserting(g)) \in Nat
        BY <2>3, <2>4, InsertingFinite, FS_RemoveElement
    <2>7. group'[g].lists + Cardinality(Inserting(g)')
              <= ListsPerGroup + Cardinality(Requests) - 1
        BY <2>2, <2>6, InsertingFinite, CorporationsAssumption DEF ListsInv
    <2>8. \A h \in Groups : h # g => group'[h].lists + Cardinality(Inserting(h)')
                                        <= ListsPerGroup + Cardinality(Requests) - 1
        BY <2>2, <2>5 DEF ListsInv
    <2> QED
        BY <2>7, <2>8 DEF ListsInv
<1>7. ASSUME NEW r \in Requests, \/ RotateInvite(r) \/ ArchiveList(r) \/ DeleteGroup(r)
                                 \/ \E g \in Groups : Create(r, g)
      PROVE  ListsInv'
    <2>1. \A g \in Groups : group[g].lists \in Nat
        BY DEF Rows, GroupRow
    <2>2. req[r].op # "create" => req[r].g \in Groups
        BY <1>7 DEF RotateInvite, ArchiveList, DeleteGroup, Create, At, About
    <2>3. \A g \in Groups : group'[g].lists <= group[g].lists
        <3>1. ASSUME RotateInvite(r) PROVE \A g \in Groups : group'[g].lists = group[g].lists
            BY <3>1 DEF RotateInvite, Rows, GroupRow
        <3>2. ASSUME ArchiveList(r)
              PROVE  \A g \in Groups : group'[g].lists \in {group[g].lists, group[g].lists - 1}
            BY <3>2 DEF ArchiveList, Rows, GroupRow
        <3>3. ASSUME DeleteGroup(r)
              PROVE  \A g \in Groups : group'[g].lists \in {group[g].lists, 0}
            BY <3>3 DEF DeleteGroup, Rows, GroupRow
        <3>4. ASSUME NEW h \in Groups, Create(r, h)
              PROVE  \A g \in Groups : group'[g].lists = group[g].lists
            BY <3>4 DEF Create, Rows, GroupRow
        <3> QED
            BY <1>7, <2>1, <3>1, <3>2, <3>3, <3>4
    <2> QED
        BY <1>1, <1>7, <2>3 DEF RotateInvite, ArchiveList, DeleteGroup, Create
<1>8. ASSUME NEW r \in Requests,
             \/ Join(r) \/ Leave(r) \/ LinkCorp(r) \/ AddAmbassador(r) \/ RemoveAmbassador(r)
             \/ DisableCorp(r) \/ Rollback(r)
      PROVE  ListsInv'
    <2>1. Done(r) /\ group' = group
        BY <1>8 DEF Join, Leave, LinkCorp, AddAmbassador, RemoveAmbassador, DisableCorp,
                    Rollback, tables
    <2> QED
        BY <1>1, <2>1 DEF Rows, GroupRow
<1>9. ASSUME NEW r \in Requests, UnlinkCorp(r)
      PROVE  ListsInv'
    <2>1. /\ \A q \in Requests : q # r => req'[q] = req[q]
          /\ req'[r].pc = "disable"
        BY <1>9 DEF UnlinkCorp, At, Rows, RequestRow
    <2>2. \A g \in Groups : group'[g].lists <= group[g].lists
        <3>1. group' = group
            BY <1>9 DEF UnlinkCorp, tables
        <3> QED
            BY <3>1 DEF Rows, GroupRow
    <2> QED
        BY <2>1, <2>2, ListsQuiet DEF Inserting, At
<1>10. CASE UNCHANGED corporationVars
    BY <1>10 DEF corporationVars, ListsInv, Inserting, At
<1> QED
    BY <1>2, <1>4, <1>5, <1>6, <1>7, <1>8, <1>9, <1>10 DEF CorporationsNext, Handler
-----------------------------------------------------------------------------
(* What unlink_corp revokes. *)

\* Until it commits, an unlink holds the rows of the ambassadors it revokes.
LEMMA RevokeStep == CorporationsInv /\ [CorporationsNext]_corporationVars => RevokeInv'
<1> SUFFICES ASSUME CorporationsInv, [CorporationsNext]_corporationVars PROVE RevokeInv'
    OBVIOUS
<1> USE DEF CorporationsInv
<1> DEFINE Revokes(q) == At(q, "unlink", "disable")
<1>1. ASSUME NEW r \in Requests, \A q \in Requests : q # r => req'[q] = req[q], ~Revokes(r)',
             \A q \in Requests : Revokes(q) /\ q # r =>
                \A ch \in req[q].revoked :
                    amb'[ch] = "on" => amb[ch] = "on" /\ via'[ch] = via[ch]
      PROVE  RevokeInv'
    BY <1>1 DEF RevokeInv, At
<1>2. ASSUME NEW r \in Requests, Done(r) \/ (req[r] # None /\ \E pc \in {"count", "insert", "linked"} : Goto(r, pc))
      PROVE  /\ ~Revokes(r)'
             /\ \A q \in Requests : q # r => req'[q] = req[q]
    BY <1>2, DoneReq, GotoReq DEF At
<1>3. ASSUME NEW r \in Requests, NEW u \in Users, NEW c \in Calls, Start(r, u, c)
      PROVE  RevokeInv'
    <2>1. /\ \A q \in Requests : q # r => req'[q] = req[q]
          /\ req'[r].pc \in {"lock", "run"}
        BY <1>3 DEF Start, Rows
    <2> QED
        BY <1>1, <1>3, <2>1 DEF Start, tables, At
<1>4. ASSUME NEW r \in Requests,
             \/ LockUserForQuota(r) \/ RequireGroupQuota(r) \/ CountLists(r) \/ UpsertCorp(r)
             \/ Rollback(r) \/ Join(r) \/ Leave(r) \/ RotateInvite(r) \/ InsertList(r)
             \/ ArchiveList(r) \/ \E g \in Groups : Create(r, g)
      PROVE  RevokeInv'
    <2>1. /\ UNCHANGED <<amb, via>>
          /\ Done(r) \/ (req[r] # None /\ \E pc \in {"count", "insert", "linked"} : Goto(r, pc))
        BY <1>4 DEF LockUserForQuota, RequireGroupQuota, CountLists, UpsertCorp, Rollback, Join,
                    Leave, RotateInvite, InsertList, ArchiveList, Create, tables, At
    <2> QED
        BY <1>1, <1>2, <2>1
<1>5. ASSUME NEW r \in Requests, DeleteGroup(r)
      PROVE  RevokeInv'
    <2>1. \A q \in Requests : Revokes(q) => req[q].g # req[r].g
        BY <1>5 DEF DeleteGroup
    <2>2. \A q \in Requests : Revokes(q) => req[q].revoked \subseteq Chars
        BY DEF At, Rows, RequestRow
    <2>3. \A q \in Requests : q # r => req'[q] = req[q]
        BY <1>2, <1>5 DEF DeleteGroup
    <2>4. ~Revokes(r)'
        BY <1>2, <1>5 DEF DeleteGroup
    <2>5. \A ch \in Chars : via'[ch] # via[ch] => via[ch] = req[r].g
        BY <1>5 DEF DeleteGroup, Rows
    <2> QED
        BY <1>5, <2>1, <2>2, <2>3, <2>4, <2>5 DEF DeleteGroup, RevokeInv, At
<1>6. ASSUME NEW r \in Requests, LinkCorp(r) \/ AddAmbassador(r) \/ RemoveAmbassador(r)
      PROVE  RevokeInv'
    <2>1. Done(r)
        BY <1>6 DEF LinkCorp, AddAmbassador, RemoveAmbassador
    <2>2. \A q \in Requests : Revokes(q) => req[q].revoked \subseteq Chars
        BY DEF At, Rows, RequestRow
    <2>3. \A q \in Requests : Revokes(q) /\ q # r => req[r].ch \notin req[q].revoked
        BY <1>6 DEF LinkCorp, AddAmbassador, RemoveAmbassador, AmbLocked
    <2>4. \A ch \in Chars : ch # req[r].ch => amb'[ch] = amb[ch] /\ via'[ch] = via[ch]
        BY <1>6 DEF LinkCorp, AddAmbassador, RemoveAmbassador, Rows
    <2> QED
        BY <1>1, <1>2, <2>1, <2>2, <2>3, <2>4
<1>7. ASSUME NEW r \in Requests, UnlinkCorp(r)
      PROVE  RevokeInv'
    <2>1. req[r] \in RequestRow /\ req[r] # None
        BY <1>7 DEF UnlinkCorp, At, Rows
    <2>2. /\ \A q \in Requests : q # r => req'[q] = req[q]
          /\ req'[r].g = req[r].g
          /\ \A ch \in req'[r].revoked : via[ch] = req[r].g
        BY <1>7, <2>1 DEF UnlinkCorp, Contributed, Rows, RequestRow
    <2>3. UNCHANGED <<amb, via>>
        BY <1>7 DEF UnlinkCorp, tables
    <2> QED
        BY <2>2, <2>3 DEF RevokeInv, At
<1>8. ASSUME NEW r \in Requests, DisableCorp(r)
      PROVE  RevokeInv'
    <2>1. \A q \in Requests : Revokes(q) => req[q].revoked \subseteq Chars
        BY DEF At, Rows, RequestRow
    <2>2. \A ch \in Chars : (amb'[ch] = "on" => amb[ch] = "on") /\ via'[ch] = via[ch]
        BY <1>8 DEF DisableCorp
    <2> QED
        BY <1>1, <1>2, <1>8, <2>1, <2>2 DEF DisableCorp
<1>9. CASE UNCHANGED corporationVars
    BY <1>9 DEF corporationVars, RevokeInv, At
<1> QED
    BY <1>3, <1>4, <1>5, <1>6, <1>7, <1>8, <1>9 DEF CorporationsNext, Handler
-----------------------------------------------------------------------------
\* The invariant holds in every reachable state.
THEOREM CorporationsInvariant == CorporationsSpec => []CorporationsInv
<1>1. CorporationsInv /\ [CorporationsNext]_corporationVars => CorporationsInv'
    BY RowsStep, OwnedStep, QuotaStep, ListsStep, RevokeStep DEF CorporationsInv
<1> QED
    BY <1>1, InvInit, PTL DEF CorporationsSpec

\* Well-typed tables, and exactly one owner for each live group: leave refuses the
\* last owner, and everything hangs off a group that is there.
THEOREM OneOwner == CorporationsSpec => []GroupsTypeOK
<1>1. CorporationsInv => GroupsTypeOK
    <2> SUFFICES ASSUME CorporationsInv PROVE GroupsTypeOK
        OBVIOUS
    <2> USE DEF CorporationsInv
    <2>1. ASSUME NEW g \in Groups, group[g].state = "live"
          PROVE  Cardinality({u \in Users : role[g][u] = "owner"}) = 1
        <3>1. PICK o \in Users : {u \in Users : role[g][u] = "owner"} = {o}
            BY <2>1 DEF Owned
        <3> QED
            BY <3>1, FS_Singleton
    <2>2. ASSUME NEW g \in Groups, group[g].state # "live"
          PROVE  Members(g) = {} /\ group[g].lists = 0 /\ link[g] = "none"
        BY <2>2 DEF Owned, Members
    <2> QED
        BY <2>1, <2>2 DEF GroupsTypeOK, Rows, GroupRow
<1> QED
    BY <1>1, CorporationsInvariant, PTL

\* limits.groups_per_user is never exceeded, however many creates and joins of a
\* user run at once: lock_user_for_quota lets one of them count and insert at a time.
THEOREM GroupQuotaHolds == CorporationsSpec => []QuotaHeld
<1>1. CorporationsInv => QuotaHeld
    BY DEF CorporationsInv, QuotaInv, QuotaHeld
<1> QED
    BY <1>1, CorporationsInvariant, PTL

\* limits.lists_per_group, counted without a lock, is exceeded by at most one list
\* for each other request in flight.
THEOREM ListsOvershootBounded == CorporationsSpec => []ListsOvershoot
<1>1. CorporationsInv => ListsOvershoot
    <2> SUFFICES ASSUME CorporationsInv, NEW g \in Groups
                 PROVE  group[g].lists <= ListsPerGroup + Cardinality(Requests) - 1
        BY DEF ListsOvershoot
    <2>1. group[g].lists + Cardinality(Inserting(g)) <= ListsPerGroup + Cardinality(Requests) - 1
        BY DEF CorporationsInv, ListsInv
    <2>2. group[g].lists \in Nat
        BY DEF CorporationsInv, Rows, GroupRow
    <2> QED
        BY <2>1, <2>2, InsertingFinite, CorporationsAssumption
<1> QED
    BY <1>1, CorporationsInvariant, PTL

\* unlink_corp disables only ambassadors that its own group contributed: the group of
\* an ambassador that it has chosen does not change before it commits.
THEOREM RevocationIsOwn == CorporationsSpec => RevokesOwnOnly
<1>1. CorporationsInv /\ [CorporationsNext]_corporationVars =>
        [\A ch \in Chars : amb[ch] = "on" /\ amb'[ch] = "off" =>
           \E r \in Requests :
              /\ req[r] # None /\ req'[r] = None
              /\ \/ req[r].op = "remove" /\ req[r].ch = ch
                 \/ req[r].op = "unlink" /\ via[ch] = req[r].g]_corporationVars
    <2> SUFFICES ASSUME CorporationsInv, CorporationsNext,
                        NEW ch \in Chars, amb[ch] = "on", amb'[ch] = "off"
                 PROVE  \E r \in Requests :
                           /\ req[r] # None /\ req'[r] = None
                           /\ \/ req[r].op = "remove" /\ req[r].ch = ch
                              \/ req[r].op = "unlink" /\ via[ch] = req[r].g
        OBVIOUS
    <2> USE DEF CorporationsInv
    <2>1. ASSUME NEW r \in Requests, NEW u \in Users, NEW c \in Calls, Start(r, u, c)
          PROVE  FALSE
        BY <2>1 DEF Start, tables
    <2>2. ASSUME NEW r \in Requests,
                 \/ LockUserForQuota(r) \/ RequireGroupQuota(r) \/ CountLists(r) \/ UpsertCorp(r)
                 \/ Rollback(r) \/ Join(r) \/ Leave(r) \/ RotateInvite(r) \/ InsertList(r)
                 \/ ArchiveList(r) \/ (\E g \in Groups : Create(r, g)) \/ DeleteGroup(r)
                 \/ UnlinkCorp(r)
          PROVE  FALSE
        BY <2>2 DEF LockUserForQuota, RequireGroupQuota, CountLists, UpsertCorp, Rollback, Join,
                    Leave, RotateInvite, InsertList, ArchiveList, Create, DeleteGroup,
                    UnlinkCorp, tables
    <2>3. ASSUME NEW r \in Requests, LinkCorp(r) \/ AddAmbassador(r)
          PROVE  FALSE
        BY <2>3 DEF LinkCorp, AddAmbassador, Rows
    <2>4. ASSUME NEW r \in Requests, RemoveAmbassador(r)
          PROVE  req[r] # None /\ req'[r] = None /\ req[r].op = "remove" /\ req[r].ch = ch
        BY <2>4, DoneReq DEF RemoveAmbassador, At, Rows
    <2>5. ASSUME NEW r \in Requests, DisableCorp(r)
          PROVE  req[r] # None /\ req'[r] = None /\ req[r].op = "unlink" /\ via[ch] = req[r].g
        <3>1. ch \in req[r].revoked /\ At(r, "unlink", "disable")
            BY <2>5 DEF DisableCorp
        <3> QED
            BY <2>5, <3>1, DoneReq DEF DisableCorp, At, RevokeInv
    <2> QED
        BY <2>1, <2>2, <2>3, <2>4, <2>5 DEF CorporationsNext, Handler
<1> QED
    BY <1>1, CorporationsInvariant, PTL DEF CorporationsSpec, RevokesOwnOnly
=============================================================================
