---------------------------- MODULE MintIdentity ----------------------------
(***************************************************************************)
(* What a mint says it is: its metadata, group and group-member pointers,  *)
(* the metadata, group and membership stored in the mint itself, and who   *)
(* may still change them.                                                  *)
(***************************************************************************)
EXTENDS Integers, FiniteSets

CONSTANTS
  Mints, Keys,
  None,              \* the empty optional key
  Kinds,             \* kinds of pointers: "Metadata", "Group", "Member"
  Fields, Values,    \* names of metadata fields and their contents
  Absent,            \* the content of a field that is not there
  MaxGroupSize,      \* bound on max_size
  MaxIncarnations    \* bound: how often an address is initialized as a mint

IdentityAssumption ==
  /\ None \notin Keys \cup Mints
  /\ Kinds \subseteq {"Metadata", "Group", "Member"}
  /\ Absent \notin Values
  /\ {MaxGroupSize, MaxIncarnations} \subseteq Nat

VARIABLES
  mints,         \* address -> mint
  incarnation    \* history: how often the address has been initialized

vars == <<mints, incarnation>>

MaybeKey == Keys \cup {None}
MaybeAddress == Mints \cup {None}
Missing == [present |-> FALSE]
Pointers == [present : {TRUE}, authority : MaybeKey, address : MaybeAddress]
Groups == [present : {TRUE}, update_authority : MaybeKey, size : 0..MaxGroupSize,
           max_size : 0..MaxGroupSize]
\* under: history, the incarnation of the group that was joined.
Memberships == [present : {TRUE}, group : Mints, member_number : 1..MaxGroupSize,
                under : 1..MaxIncarnations]
Metadata == [present : {TRUE}, update_authority : MaybeKey,
             fields : [Fields -> Values \cup {Absent}]]
MintState == [initialized : BOOLEAN, mint_authority : MaybeKey,
              pointer : [Kinds -> Pointers \cup {Missing}], group : Groups \cup {Missing},
              member : Memberships \cup {Missing}, metadata : Metadata \cup {Missing}]
Blank == [initialized |-> FALSE, mint_authority |-> None, pointer |-> [k \in Kinds |-> Missing],
          group |-> Missing, member |-> Missing, metadata |-> Missing]

HasPointer(m, kind) == kind \in Kinds /\ mints[m].pointer[kind].present
check_update_authority(signer, expected) == expected # None /\ signer = expected

(***************************************************************************)
(* The three pointer extensions: one handler in three copies.              *)
(***************************************************************************)
InitializePointer(m, kind, authority, address) ==
  /\ kind \in Kinds
  /\ ~mints[m].initialized
  /\ authority # None \/ address # None
  /\ mints' = [mints EXCEPT ![m].pointer[kind] =
                 [present |-> TRUE, authority |-> authority, address |-> address]]
  /\ UNCHANGED incarnation

\* Mutant: without an authority anyone is let through.
UpdatePointerUnguarded(m, kind, address, signer) ==
  /\ kind \in Kinds
  /\ mints[m].initialized /\ mints[m].pointer[kind].present
  /\ mints[m].pointer[kind].authority \in {signer, None}
  /\ mints' = [mints EXCEPT ![m].pointer[kind].address = address]
  /\ UNCHANGED incarnation

UpdatePointer(m, kind, address, signer) ==
  /\ kind \in Kinds
  /\ mints[m].initialized /\ mints[m].pointer[kind].present
  /\ check_update_authority(signer, mints[m].pointer[kind].authority)
  /\ mints' = [mints EXCEPT ![m].pointer[kind].address = address]
  /\ UNCHANGED incarnation

InitializeMetadataPointer(m, authority, address) ==
  InitializePointer(m, "Metadata", authority, address)
InitializeGroupPointer(m, authority, address) ==
  InitializePointer(m, "Group", authority, address)
InitializeMemberPointer(m, authority, address) ==
  InitializePointer(m, "Member", authority, address)

UpdateMetadataPointer(m, address, signer) == UpdatePointer(m, "Metadata", address, signer)
UpdateGroupPointer(m, address, signer) == UpdatePointer(m, "Group", address, signer)
UpdateMemberPointer(m, address, signer) == UpdatePointer(m, "Member", address, signer)

\* SetAuthority with MetadataPointer, GroupPointer or GroupMemberPointer.
SetPointerAuthority(m, kind, new, signer) ==
  /\ mints[m].initialized /\ mints[m].pointer[kind].present
  /\ check_update_authority(signer, mints[m].pointer[kind].authority)
  /\ mints' = [mints EXCEPT ![m].pointer[kind].authority = new]
  /\ UNCHANGED incarnation

InitializeMint(m, authority) ==
  /\ ~mints[m].initialized /\ incarnation[m] < MaxIncarnations
  /\ mints' = [mints EXCEPT ![m].initialized = TRUE, ![m].mint_authority = authority]
  /\ incarnation' = [incarnation EXCEPT ![m] = @ + 1]

\* SetAuthority with MintTokens: the mint authority also opens groups and metadata.
RenounceMintAuthority(m, signer) ==
  /\ mints[m].initialized
  /\ check_update_authority(signer, mints[m].mint_authority)
  /\ mints' = [mints EXCEPT ![m].mint_authority = None]
  /\ UNCHANGED incarnation

\* A mint with a close authority, never minted: everything stored in it goes.
CloseMint(m) ==
  /\ mints[m].initialized
  /\ mints' = [mints EXCEPT ![m] = Blank]
  /\ UNCHANGED incarnation

(***************************************************************************)
(* Groups.                                                                 *)
(***************************************************************************)
InitializeGroup(m, update_authority, max_size, signer) ==
  /\ mints[m].initialized
  /\ check_update_authority(signer, mints[m].mint_authority)
  /\ HasPointer(m, "Group")
  /\ ~mints[m].group.present
  /\ mints' = [mints EXCEPT ![m].group =
                 [present |-> TRUE, update_authority |-> update_authority, size |-> 0,
                  max_size |-> max_size]]
  /\ UNCHANGED incarnation

\* TokenGroup::update_max_size (external) refuses a limit below the size.
UpdateGroupMaxSize(m, max_size, signer) ==
  /\ mints[m].group.present
  /\ check_update_authority(signer, mints[m].group.update_authority)
  /\ mints[m].group.size <= max_size
  /\ mints' = [mints EXCEPT ![m].group.max_size = max_size]
  /\ UNCHANGED incarnation

UpdateGroupAuthority(m, new, signer) ==
  /\ mints[m].group.present
  /\ check_update_authority(signer, mints[m].group.update_authority)
  /\ mints' = [mints EXCEPT ![m].group.update_authority = new]
  /\ UNCHANGED incarnation

\* Mutant: the number of the living members instead of a running count.
next_free_number(group) ==
  1 + Cardinality({m \in Mints : mints[m].member.present})

\* TokenGroup::increment_size (external) refuses to exceed max_size and returns the
\* new size as the member's number.
increment_size(group) == group.size + 1

\* The group is incremented before the member's entry is allocated, which fails if
\* there is one already; a failure undoes both.
InitializeMember(m, g, signer, group_signer) ==
  LET member_number == increment_size(mints[g].group)
  IN  /\ mints[m].initialized
      /\ check_update_authority(signer, mints[m].mint_authority)
      /\ HasPointer(m, "Member")
      /\ m # g
      /\ mints[g].group.present
      /\ check_update_authority(group_signer, mints[g].group.update_authority)
      /\ member_number <= mints[g].group.max_size
      /\ ~mints[m].member.present
      /\ mints' = [mints EXCEPT
           ![g].group.size = member_number,
           ![m].member = [present |-> TRUE, group |-> g, member_number |-> member_number,
                          under |-> incarnation[g]]]
      /\ UNCHANGED incarnation

(***************************************************************************)
(* Metadata.  How the entry grows and shrinks is in the module Tlv.        *)
(***************************************************************************)
InitializeMetadata(m, update_authority, fields, signer) ==
  /\ mints[m].initialized
  /\ check_update_authority(signer, mints[m].mint_authority)
  /\ HasPointer(m, "Metadata")
  /\ ~mints[m].metadata.present
  /\ mints' = [mints EXCEPT ![m].metadata =
                 [present |-> TRUE, update_authority |-> update_authority, fields |-> fields]]
  /\ UNCHANGED incarnation

UpdateField(m, field, value, signer) ==
  /\ mints[m].metadata.present
  /\ check_update_authority(signer, mints[m].metadata.update_authority)
  /\ mints' = [mints EXCEPT ![m].metadata.fields[field] = value]
  /\ UNCHANGED incarnation

\* Removing a key that is not there changes nothing, idempotent or not.
RemoveKey(m, field, signer) ==
  /\ mints[m].metadata.present
  /\ check_update_authority(signer, mints[m].metadata.update_authority)
  /\ mints' = [mints EXCEPT ![m].metadata.fields[field] = Absent]
  /\ UNCHANGED incarnation

UpdateMetadataAuthority(m, new, signer) ==
  /\ mints[m].metadata.present
  /\ check_update_authority(signer, mints[m].metadata.update_authority)
  /\ mints' = [mints EXCEPT ![m].metadata.update_authority = new]
  /\ UNCHANGED incarnation

Init ==
  /\ mints = [m \in Mints |-> Blank]
  /\ incarnation = [m \in Mints |-> 0]

PointerSteps(m, k) ==
  \/ \E authority \in MaybeKey, address \in MaybeAddress :
       \/ InitializeMetadataPointer(m, authority, address)
       \/ InitializeGroupPointer(m, authority, address)
       \/ InitializeMemberPointer(m, authority, address)
  \/ \E address \in MaybeAddress :
       \/ UpdateMetadataPointer(m, address, k)
       \/ UpdateGroupPointer(m, address, k)
       \/ UpdateMemberPointer(m, address, k)
  \/ \E kind \in Kinds, new \in MaybeKey : SetPointerAuthority(m, kind, new, k)

MintSteps(m, k) == InitializeMint(m, k) \/ RenounceMintAuthority(m, k) \/ CloseMint(m)

GroupSteps(m, k) ==
  \/ \E authority \in MaybeKey, size \in 0..MaxGroupSize : InitializeGroup(m, authority, size, k)
  \/ \E size \in 0..MaxGroupSize : UpdateGroupMaxSize(m, size, k)
  \/ \E new \in MaybeKey : UpdateGroupAuthority(m, new, k)
  \/ \E g \in Mints, gk \in Keys : InitializeMember(m, g, k, gk)

MetadataSteps(m, k) ==
  \/ \E authority \in Keys, fields \in [Fields -> Values] :
       InitializeMetadata(m, authority, fields, k)
  \/ \E field \in Fields, value \in Values : UpdateField(m, field, value, k)
  \/ \E field \in Fields : RemoveKey(m, field, k)
  \/ \E new \in MaybeKey : UpdateMetadataAuthority(m, new, k)

Next ==
  \E m \in Mints, k \in Keys :
    PointerSteps(m, k) \/ MintSteps(m, k) \/ GroupSteps(m, k) \/ MetadataSteps(m, k)

Spec == Init /\ [][Next]_vars

-----------------------------------------------------------------------------

\* Every variable has its type.
TypeOK ==
  /\ mints \in [Mints -> MintState]
  /\ incarnation \in [Mints -> 0..MaxIncarnations]

MembersOf(g) ==
  {m \in Mints : /\ mints[m].member.present /\ mints[m].member.group = g
                 /\ mints[m].member.under = incarnation[g]}

\* Members of a group have different numbers within its size, and the size stays within
\* its limit, although member mints are closed and made again, join other groups, and
\* the limit is moved before or after a member joins.  (A group closed and made again at
\* its address counts anew; its former members keep their old numbers and are not
\* counted here.)
MembersNumbered ==
  /\ TypeOK
  /\ \A g \in Mints :
    /\ \A m1, m2 \in MembersOf(g) :
         m1 # m2 => mints[m1].member.member_number # mints[m2].member.member_number
    /\ mints[g].group.present =>
         /\ \A m \in MembersOf(g) : mints[m].member.member_number <= mints[g].group.size
         /\ mints[g].group.size <= mints[g].group.max_size

\* A step that leaves what is renounced alone.
FixedStep ==
  \A m \in Mints : (mints[m].initialized /\ mints'[m].initialized) =>
     /\ \A kind \in Kinds :
          (mints[m].pointer[kind].present /\ mints[m].pointer[kind].authority = None) =>
             mints'[m].pointer[kind] = mints[m].pointer[kind]
     /\ (mints[m].group.present /\ mints[m].group.update_authority = None) =>
           mints'[m].group = mints[m].group
     /\ (mints[m].metadata.present /\ mints[m].metadata.update_authority = None) =>
           mints'[m].metadata = mints[m].metadata
     /\ mints[m].mint_authority = None =>
           /\ mints'[m].group.present = mints[m].group.present
           /\ mints'[m].metadata.present = mints[m].metadata.present
           /\ mints'[m].member = mints[m].member

\* Once nobody has authority over a pointer, a group or the metadata of a mint, no
\* instruction changes it for as long as the mint exists, and no new group, member
\* entry or metadata appears in a mint without a mint authority.
RenouncedIsFixed == [][FixedStep]_vars

=============================================================================
