---------------------------- MODULE Corporations ----------------------------
(* Groups, their quotas and the corporation they link: api/src/groups.rs and *)
(* api/src/corps.rs, with the row-level security policies the API's role is  *)
(* subject to. A request is one transaction whose statements interleave with *)
(* those of other requests under READ COMMITTED; it writes at its commit and *)
(* the rows it has locked are known from its position. Rows of different     *)
(* corporations are independent, so there is one corporation.                *)
EXTENDS Integers, FiniteSets

CONSTANTS
    Users, Groups, Chars,
    Requests,       \* requests that may be in flight at a time
    OwnerOf,        \* the user that owns a character
    GroupsPerUser,  \* limits.groups_per_user
    ListsPerGroup,  \* limits.lists_per_group
    MaxRotations,   \* bound: invite codes of a group
    MaxRequests,    \* bound: requests in a behaviour
    None

ASSUME CorporationsAssumption ==
    /\ OwnerOf \in [Chars -> Users]
    /\ GroupsPerUser \in Nat /\ ListsPerGroup \in Nat /\ MaxRotations \in Nat
    /\ MaxRequests \in Nat
    /\ IsFiniteSet(Requests) /\ Requests # {}     \* the connections of the pool

VARIABLES
    group,  \* groups: does the row exist, its invite code, its active lists
    role,   \* group_memberships
    corp,   \* corps.disabled_at
    link,   \* group_corps.unlinked_at
    amb,    \* corp_ambassadors.disabled_at
    via,    \* corp_ambassadors.contributed_via_group_id
    req,    \* requests in flight
    served  \* how many requests have arrived

tables == <<group, role, corp, link, amb, via>>
corporationVars == <<group, role, corp, link, amb, via, req, served>>

Row == {"none", "on", "off"}
Roles == {"none", "member", "owner"}
Members(g) == {u \in Users : role[g][u] # "none"}
GroupsOf(u) == {g \in Groups : u \in Members(g)}

CorporationsInit ==
    /\ group = [g \in Groups |-> [state |-> "unborn", invite |-> 0, lists |-> 0]]
    /\ role = [g \in Groups |-> [u \in Users |-> "none"]]
    /\ corp = "none"
    /\ link = [g \in Groups |-> "none"]
    /\ amb = [c \in Chars |-> "none"] /\ via = [c \in Chars |-> None]
    /\ req = [r \in Requests |-> None] /\ served = 0

At(r, op, pc) == req[r] # None /\ req[r].op = op /\ req[r].pc = pc
OwnerOps == {"delete", "rotate", "link", "unlink", "add", "remove"}
MemberOps == {"leave", "createList", "archiveList"}
Goto(r, pc) == req' = [req EXCEPT ![r].pc = pc] /\ UNCHANGED served
Done(r) == req' = [req EXCEPT ![r] = None] /\ UNCHANGED served
-----------------------------------------------------------------------------
(* A request arrives. CurrentGroup reads the caller's role here, before any  *)
(* statement of the handler; the operations of an owner test that role. Who  *)
(* joins holds the invite code of the moment.                                *)
Calls == [op : {"create"}, g : {None}, ch : {None}]
         \cup [op : {"join"} \cup MemberOps \cup {"delete", "rotate", "unlink"},
               g : Groups, ch : {None}]
         \cup [op : {"link", "add", "remove"}, g : Groups, ch : Chars]
Start(r, u, c) ==
    /\ req[r] = None /\ served < MaxRequests /\ served' = served + 1
    /\ c.op \in OwnerOps => role[c.g][u] = "owner"
    /\ c.op \in MemberOps => role[c.g][u] # "none"
    /\ c.op \in {"link", "add"} => OwnerOf[c.ch] = u
    /\ c.op \in {"unlink", "add", "remove"} => link[c.g] = "on"   \* require_corp_in_group
    /\ req' = [req EXCEPT ![r] =
                 [op |-> c.op, u |-> u, g |-> c.g, ch |-> c.ch,
                  invite |-> IF c.op = "join" THEN group[c.g].invite ELSE 0,
                  last |-> FALSE, revoked |-> {},
                  pc |-> IF c.op \in {"create", "join"} THEN "lock" ELSE "run"]]
    /\ UNCHANGED tables

(* tx_middleware rolls a request back: an error answer, a lost database      *)
(* connection, a client that went away, the victim of a deadlock.            *)
Rollback(r) == req[r] # None /\ Done(r) /\ UNCHANGED tables

MutantLockUserForQuota(r) ==
    /\ At(r, "create", "lock") \/ At(r, "join", "lock")
    /\ Goto(r, "count") /\ UNCHANGED tables
MutantCheckListsQuota(g) == group[g].lists <= ListsPerGroup
MutantLastOwner(g, u) == FALSE
MutantContributed(ch, g) == TRUE

(* The two quotas, counted on the committed rows. *)
CheckGroupQuota(u) == Cardinality(GroupsOf(u)) < GroupsPerUser
CheckListsQuota(g) == group[g].lists < ListsPerGroup

HoldsUser(q) == req[q] # None /\ req[q].pc \in {"count", "insert"}
                /\ req[q].op \in {"create", "join"}
(* lock_user_for_quota: create and join of one user wait for each other. *)
LockUserForQuota(r) ==
    /\ At(r, "create", "lock") \/ At(r, "join", "lock")
    /\ \A q \in Requests : HoldsUser(q) => req[q].u # req[r].u
    /\ Goto(r, "count") /\ UNCHANGED tables

RequireGroupQuota(r) ==
    /\ At(r, "create", "count") \/ At(r, "join", "count")
    /\ IF CheckGroupQuota(req[r].u) THEN Goto(r, "insert") ELSE Done(r)
    /\ UNCHANGED tables

(* A fresh group with a fresh invite code (a collision is drawn again). *)
Create(r, g) ==
    /\ At(r, "create", "insert") /\ group[g].state = "unborn"
    /\ group' = [group EXCEPT ![g].state = "live"]
    /\ role' = [role EXCEPT ![g][req[r].u] = "owner"]
    /\ Done(r) /\ UNCHANGED <<corp, link, amb, via>>

(* One statement finds the invite and inserts, or keeps, the membership. *)
Join(r) ==
    LET g == req[r].g
        u == req[r].u
    IN /\ At(r, "join", "insert")
       /\ role' = IF /\ group[g].state = "live" /\ group[g].invite = req[r].invite
                     /\ role[g][u] = "none"
                  THEN [role EXCEPT ![g][u] = "member"] ELSE role
       /\ Done(r) /\ UNCHANGED <<group, corp, link, amb, via>>

(* The rows of the group are locked FOR UPDATE and read again. *)
LastOwner(g, u) == role[g][u] = "owner"
                   /\ ~ \E v \in Users \ {u} : role[g][v] = "owner"
Leave(r) ==
    LET g == req[r].g
        u == req[r].u
    IN /\ At(r, "leave", "run")
       /\ role' = IF LastOwner(g, u) THEN role ELSE [role EXCEPT ![g][u] = "none"]
       /\ Done(r) /\ UNCHANGED <<group, corp, link, amb, via>>

(* Cascades to memberships, lists and links, and sets the ambassadors'      *)
(* group to NULL. It waits for a transaction that holds one of these rows.   *)
DeleteGroup(r) ==
    LET g == req[r].g IN
    /\ At(r, "delete", "run")
    /\ \A q \in Requests : ~ (At(q, "unlink", "disable") /\ req[q].g = g)
    /\ group' = [group EXCEPT ![g].state = "gone", ![g].lists = 0]
    /\ role' = [role EXCEPT ![g] = [u \in Users |-> "none"]]
    /\ link' = [link EXCEPT ![g] = "none"]
    /\ via' = [c \in Chars |-> IF via[c] = g THEN None ELSE via[c]]
    /\ Done(r) /\ UNCHANGED <<corp, amb>>

RotateInvite(r) ==
    LET g == req[r].g IN
    /\ At(r, "rotate", "run") /\ group[g].invite < MaxRotations
    /\ group' = [group EXCEPT ![g].invite = IF group[g].state = "live" THEN @ + 1 ELSE @]
    /\ Done(r) /\ UNCHANGED <<role, corp, link, amb, via>>

(* lists::create: the quota, then prices over the network, then the rows.   *)
CountLists(r) ==
    /\ At(r, "createList", "run")
    /\ IF CheckListsQuota(req[r].g) THEN Goto(r, "insert") ELSE Done(r)
    /\ UNCHANGED tables

(* Row-level security refuses the row of a caller who is no longer a member. *)
InsertList(r) ==
    LET g == req[r].g IN
    /\ At(r, "createList", "insert") /\ req[r].u \in Members(g)
    /\ group' = [group EXCEPT ![g].lists = @ + 1]
    /\ Done(r) /\ UNCHANGED <<role, corp, link, amb, via>>

ArchiveList(r) ==
    LET g == req[r].g IN
    /\ At(r, "archiveList", "run") /\ group[g].lists > 0
    /\ group' = [group EXCEPT ![g].lists = @ - 1]
    /\ Done(r) /\ UNCHANGED <<role, corp, link, amb, via>>
-----------------------------------------------------------------------------
(* Row-level security: group_corps is visible to members of the group, and   *)
(* corp_ambassadors to members of a group that links the corporation.        *)
IsGroupMember(u, g) == u \in Members(g)
IsCorpMember(u, links) == \E g \in Groups : links[g] = "on" /\ IsGroupMember(u, g)

CorpLocked(r) == \E q \in Requests \ {r} : At(q, "link", "linked")
LinkLocked(r) == \E q \in Requests \ {r} : At(q, "unlink", "disable") /\ req[q].g = req[r].g
AmbLocked(r) == \E q \in Requests \ {r} : At(q, "unlink", "disable")
                                          /\ req[r].ch \in req[q].revoked

(* link_corp, after the affiliation was fetched: the corporation is enabled  *)
(* first and its row stays locked, then the link and the ambassador.         *)
UpsertCorp(r) ==
    /\ At(r, "link", "run") /\ ~CorpLocked(r)
    /\ Goto(r, "linked") /\ UNCHANGED tables

LinkCorp(r) ==
    LET g == req[r].g IN
    /\ At(r, "link", "linked") /\ ~LinkLocked(r) /\ ~AmbLocked(r)
    /\ IsGroupMember(req[r].u, g)
    /\ corp' = "on"
    /\ link' = [link EXCEPT ![g] = "on"]
    /\ amb' = [amb EXCEPT ![req[r].ch] = "on"]
    /\ Done(r) /\ UNCHANGED <<group, role, via>>

AddAmbassador(r) ==
    /\ At(r, "add", "run") /\ ~AmbLocked(r)
    /\ IsCorpMember(req[r].u, link)
    /\ amb' = [amb EXCEPT ![req[r].ch] = "on"]
    /\ via' = [via EXCEPT ![req[r].ch] = req[r].g]
    /\ Done(r) /\ UNCHANGED <<group, role, corp, link>>

RemoveAmbassador(r) ==
    LET ch == req[r].ch IN
    /\ At(r, "remove", "run") /\ ~AmbLocked(r)
    /\ amb' = IF IsCorpMember(req[r].u, link) /\ amb[ch] = "on"
              THEN [amb EXCEPT ![ch] = "off"] ELSE amb
    /\ Done(r) /\ UNCHANGED <<group, role, corp, link, via>>

(* unlink_corp: mark the link, revoke, count the links that remain. The two  *)
(* later statements see the rows that row-level security shows the caller    *)
(* now that the link is marked.                                              *)
Unlinked(g) == IF link[g] = "on" THEN [link EXCEPT ![g] = "off"] ELSE link
Contributed(ch, g) == via[ch] = g
UnlinkCorp(r) ==
    LET g == req[r].g
        u == req[r].u
        links == Unlinked(g)
    IN /\ At(r, "unlink", "run") /\ ~LinkLocked(r)
       /\ req' = [req EXCEPT ![r].pc = "disable",
                    ![r].revoked = {ch \in Chars : /\ IsCorpMember(u, links)
                                                   /\ amb[ch] = "on" /\ Contributed(ch, g)},
                    ![r].last = ~ \E h \in Groups : links[h] = "on" /\ IsGroupMember(u, h)]
       /\ UNCHANGED <<served, tables>>

(* If it saw no other link it disables the corporation, which waits for a    *)
(* link_corp that holds the row; the transaction then commits.               *)
DisableCorp(r) ==
    LET g == req[r].g IN
    /\ At(r, "unlink", "disable") /\ (req[r].last => ~CorpLocked(r))
    /\ corp' = IF req[r].last THEN "off" ELSE corp
    /\ link' = Unlinked(g)
    /\ amb' = [ch \in Chars |-> IF ch \in req[r].revoked THEN "off" ELSE amb[ch]]
    /\ Done(r) /\ UNCHANGED <<group, role, via>>
-----------------------------------------------------------------------------
Handler(r) ==
    \/ LockUserForQuota(r) \/ RequireGroupQuota(r)
    \/ \E g \in Groups : Create(r, g)
    \/ Join(r) \/ Leave(r) \/ DeleteGroup(r) \/ RotateInvite(r)
    \/ CountLists(r) \/ InsertList(r) \/ ArchiveList(r)
    \/ UpsertCorp(r) \/ LinkCorp(r) \/ AddAmbassador(r) \/ RemoveAmbassador(r)
    \/ UnlinkCorp(r) \/ DisableCorp(r) \/ Rollback(r)

CorporationsNext ==
    \E r \in Requests :
        \/ Handler(r)
        \/ \E u \in Users, c \in Calls : Start(r, u, c)

CorporationsSpec == CorporationsInit /\ [][CorporationsNext]_corporationVars
-----------------------------------------------------------------------------
(* A live group has exactly one owner, whoever leaves it; memberships, lists *)
(* and links belong to live groups.                                          *)
GroupsTypeOK ==
    /\ group \in [Groups -> [state : {"unborn", "live", "gone"}, invite : 0 .. MaxRotations,
                             lists : Nat]]
    /\ role \in [Groups -> [Users -> Roles]]
    /\ corp \in Row /\ link \in [Groups -> Row]
    /\ amb \in [Chars -> Row] /\ via \in [Chars -> Groups \cup {None}]
    /\ \A g \in Groups :
         IF group[g].state = "live"
         THEN Cardinality({u \in Users : role[g][u] = "owner"}) = 1
         ELSE Members(g) = {} /\ group[g].lists = 0 /\ link[g] = "none"

(* limits.groups_per_user holds under concurrent creates and joins of a user *)
(* (groups.rs: "Without this, two concurrent joins each read a stale count   *)
(* and both insert, exceeding the cap").                                     *)
QuotaHeld == \A u \in Users : Cardinality(GroupsOf(u)) <= GroupsPerUser

(* limits.lists_per_group has no such lock: requests that counted before     *)
(* either inserted all insert, so a group exceeds the limit by at most one   *)
(* list for each other request in flight.                                    *)
ListsOvershoot ==
    \A g \in Groups : group[g].lists <= ListsPerGroup + Cardinality(Requests) - 1

(* unlink_corp revokes only ambassadors that its own group contributed, also *)
(* when other requests move or remove ambassadors, or delete the group, while *)
(* it waits to disable the corporation (init.sql: "so unlink_corp can revoke *)
(* only that group's ambassadors").                                          *)
RevokesOwnOnly ==
    [][\A ch \in Chars : amb[ch] = "on" /\ amb'[ch] = "off" =>
         \E r \in Requests :
            /\ req[r] # None /\ req'[r] = None
            /\ \/ req[r].op = "remove" /\ req[r].ch = ch
               \/ req[r].op = "unlink" /\ via[ch] = req[r].g]_corporationVars

(* unlink_corp means to disable the corporation only "if no other group      *)
(* links this corp", so that a linked corporation is enabled, and polled.    *)
(* The code does not keep it: the caller counts only links of its own        *)
(* groups, and a concurrent link_corp is not seen. No run checks this        *)
(* formula; the README describes the behaviour.                              *)
LinkedCorpEnabled == (\E g \in Groups : link[g] = "on") => corp = "on"
=============================================================================
