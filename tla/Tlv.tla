-------------------------------- MODULE Tlv --------------------------------
(***************************************************************************)
(* How the extensions of one account are kept in its bytes: the base state *)
(* (82 bytes of a mint, 165 of a token account), zero padding up to the    *)
(* size of a token account, one byte for the account type, and entries of  *)
(* type, length and value up to the first zero type.  Nothing else tells a *)
(* mint from a token account, and a size of 355 means a multisig.          *)
(*                                                                         *)
(* A base state is cut down to the byte that says whether it is            *)
(* initialized.  That of a token account lies in the padding of a mint,    *)
(* that of a mint in a public key of a token account.                      *)
(*                                                                         *)
(* A function of the source that can fail is the set of its results: empty *)
(* when it fails.  A failing instruction changes nothing.                  *)
(***************************************************************************)
EXTENDS Sequences, SequencesExt, Totals

CONSTANTS
  MINT_LEN, ACCOUNT_LEN, MULTISIG_LEN,
  U16_MAX,             \* what an entry's length can say
  type_len,            \* try_get_type_len: sizes of the extensions that have one
  Contents,            \* bound: the values stored, as sequences of bytes
  Required,            \* bound: the account extensions a mint requires, in their order
  Reserved,            \* bound: sets of extensions an account is sized for
  Slack,               \* bound: bytes allocated above what was asked for
  MaxLen               \* bound on the size of an account

VARIABLES
  data,      \* the account's bytes
  promised   \* history: the extensions its size was chosen for

vars == <<data, promised>>

\* A result under a condition, and what comes after a result.
OkIf(cond, result) == IF cond THEN {result} ELSE {}
Then(results, Op(_)) == UNION { Op(r) : r \in results }

-----------------------------------------------------------------------------
(* Extension types.                                                        *)

MintCloseAuthority == 3
TransferFeeConfig == 1
ConfidentialTransferMint == 4
ConfidentialTransferFeeConfig == 16
TokenMetadata == 19
TokenGroup == 21
TokenGroupMember == 23
ImmutableOwner == 7
MemoTransfer == 8

\* The types by number, as the enumeration of the source counts them.
MintTypes == {1, 3, 4, 6, 9, 10, 12, 14, 16, 18, 19, 20, 21, 22, 23}
AccountTypes == {2, 5, 7, 8, 11, 13, 15, 17}
ExtensionType == {0} \cup MintTypes \cup AccountTypes

get_account_type(V) ==
  CASE V \in MintTypes -> "Mint" [] V \in AccountTypes -> "Account" [] OTHER -> "Uninitialized"

\* AccountType as a byte.
TypeByte(S) == CASE S = "Mint" -> 1 [] S = "Account" -> 2 [] OTHER -> 0

sized(V) == V # TokenMetadata

\* init_account_extension_from_type knows these and no other.
InitializedWithAccount == {2, 7, 13, 15}

u8 == 0..255

ASSUME LayoutAssumption ==
  /\ MINT_LEN \in Nat \ {0} /\ ACCOUNT_LEN \in Nat /\ MULTISIG_LEN \in Nat
  /\ MINT_LEN < ACCOUNT_LEN /\ ACCOUNT_LEN < MULTISIG_LEN
  /\ U16_MAX \in Nat /\ U16_MAX < 256 * 256 /\ MaxLen \in Nat
  /\ DOMAIN type_len \subseteq { V \in MintTypes \cup AccountTypes : sized(V) }
  /\ \A V \in DOMAIN type_len : type_len[V] \in 0..U16_MAX
  /\ Contents \subseteq Seq(u8)
  /\ Required \subseteq Seq(InitializedWithAccount \cap DOMAIN type_len)
  /\ Reserved \subseteq SUBSET DOMAIN type_len
  /\ Slack \subseteq Nat

check_for_invalid_mint_extension_combinations(types) ==
  LET fee == TransferFeeConfig \in types
      confidential == ConfidentialTransferMint \in types
  IN  ConfidentialTransferFeeConfig \in types <=> (fee /\ confidential)

-----------------------------------------------------------------------------
(* Bytes.                                                                  *)

Byte(s, i) == s[i + 1]
Cut(s, from, to) == SubSeq(s, from + 1, to)
Zeros(n) == [i \in 1..n |-> 0]
\* s with the bytes of t from position i on.
Write(s, i, t) == [k \in 1..Len(s) |-> IF k > i /\ k <= i + Len(t) THEN t[k - i] ELSE s[k]]
\* copy_within and fill of a slice.
CopyWithin(s, from, to, i) == Write(s, i, Cut(s, from, to))
Fill(s, from, to) == Write(s, from, Zeros(to - from))
\* A PodU16: types and lengths.
Word(s, i) == Byte(s, i) + 256 * Byte(s, i + 1)
WordBytes(w) == <<w % 256, w \div 256>>

get_tlv_indices(start) ==
  [type_start |-> start, length_start |-> start + 2, value_start |-> start + 4]

add_type_and_length_to_len(n) == n + 4

\* Mutant: sizes are not kept off that of a multisig.
adjust_len_for_nothing(n) == n

adjust_len_for_multisig(n) == IF n = MULTISIG_LEN THEN n + 2 ELSE n

-----------------------------------------------------------------------------
(* Reading.                                                                *)

\* Where the entry of type V is, or with init where it could be put.
Found(tlv, V, init) ==
  LET Find[start \in Nat] ==
        LET at == get_tlv_indices(start)
            type == Word(tlv, start)
        IN  IF start >= Len(tlv) \/ Len(tlv) < at.value_start THEN {}
            ELSE IF type \notin ExtensionType THEN {}
            ELSE IF type = V \/ (type = 0 /\ init) THEN {at}
            ELSE IF type = 0 \/ get_account_type(type) # get_account_type(V) THEN {}
            ELSE Find[at.value_start + Word(tlv, at.length_start)]
  IN  Find

get_extension_indices(tlv, V, init) == Found(tlv, V, init)[0]

\* The types in use from a position on, in order, and where they end.
Walked(tlv) ==
  LET Walk[start \in Nat] ==
        LET at == get_tlv_indices(start)
            type == Word(tlv, start)
            end == at.value_start + Word(tlv, at.length_start)
            done == {[extension_types |-> <<>>, used_len |-> start]}
        IN  IF start >= Len(tlv) \/ Len(tlv) < at.length_start THEN done
            ELSE IF type \notin ExtensionType THEN {}
            ELSE IF type = 0 THEN done
            ELSE IF Len(tlv) < at.value_start \/ Len(tlv) < end THEN {}
            ELSE { [extension_types |-> <<type>> \o rest.extension_types,
                    used_len |-> rest.used_len] : rest \in Walk[end] }
  IN  Walk

get_tlv_data_info(tlv) == Walked(tlv)[0]

\* Some(type) as the set of the type, None and failure as the empty set.
get_first_extension_type(tlv) ==
  IF Len(tlv) <= 2 THEN {} ELSE {Word(tlv, 0)} \ {0}

get_extension_bytes(S, tlv, V) ==
  { Cut(tlv, at.value_start, at.value_start + Word(tlv, at.length_start)) :
      at \in { a \in get_extension_indices(tlv, V, FALSE) :
                 /\ get_account_type(V) = S
                 /\ a.value_start + Word(tlv, a.length_start) <= Len(tlv) } }

SizeOf(S) == IF S = "Mint" THEN MINT_LEN ELSE ACCOUNT_LEN

\* IsInitialized: the last byte of the base state stands for it.
is_initialized(S, d) == Byte(d, SizeOf(S) - 1) # 0

check_min_len_and_not_multisig(S, d) == Len(d) # MULTISIG_LEN /\ Len(d) >= SizeOf(S)

\* Whether there is an account type behind the base, with room for entries behind it.
HasType(S, d) == Len(d) > SizeOf(S)
type_and_tlv_indices(S, d) ==
  /\ Len(d) > ACCOUNT_LEN + 1
  /\ \A i \in SizeOf(S)..(ACCOUNT_LEN - 1) : Byte(d, i) = 0

AccountTypeByte(d) == Byte(d, ACCOUNT_LEN)

Entries(d) == IF Len(d) > ACCOUNT_LEN + 1 THEN Cut(d, ACCOUNT_LEN + 1, Len(d)) ELSE <<>>

\* Mutant: only the base state is looked at.
UnpackBaseOnly(S, d, initialized, type) ==
  OkIf(/\ check_min_len_and_not_multisig(S, d)
       /\ is_initialized(S, d) = initialized,
       Entries(d))

\* The entries behind the base state, when the account type is the one expected.
UnpackTyped(S, d, initialized, type) ==
  OkIf(/\ check_min_len_and_not_multisig(S, d)
       /\ is_initialized(S, d) = initialized
       /\ HasType(S, d) => type_and_tlv_indices(S, d) /\ AccountTypeByte(d) = type,
       Entries(d))

unpack(S, d) == UnpackTyped(S, d, TRUE, TypeByte(S))

\* check_account_type_matches_extension_type and init_account_type look at the first entry.
FirstMatches(S, tlv) == \A V \in get_first_extension_type(tlv) : get_account_type(V) = S

unpack_uninitialized(S, d) ==
  { tlv \in UnpackTyped(S, d, FALSE, 0) : FirstMatches(S, tlv) }

\* The account's bytes with other entries.
WithTlv(d, tlv) == Cut(d, 0, Len(d) - Len(tlv)) \o tlv

get_extension_types(tlv) == { ToSet(info.extension_types) : info \in get_tlv_data_info(tlv) }

-----------------------------------------------------------------------------
(* Sizes.                                                                  *)

try_get_total_tlv_len(types) ==
  OkIf(\A V \in types : sized(V),
       Total([V \in types |-> add_type_and_length_to_len(type_len[V])], types))

try_calculate_account_len(S, types) ==
  IF types = {} THEN {SizeOf(S)}
  ELSE { adjust_len_for_multisig(n + ACCOUNT_LEN + 1) : n \in try_get_total_tlv_len(types) }

try_get_new_account_len_for_extension_len(S, tlv, V, length) ==
  LET bytes == get_extension_bytes(S, tlv, V)
      taken == IF bytes = {} THEN 0
               ELSE add_type_and_length_to_len(Len(CHOOSE b \in bytes : TRUE))
  IN  { adjust_len_for_multisig(info.used_len + ACCOUNT_LEN + 1 - taken
                                  + add_type_and_length_to_len(length)) :
          info \in get_tlv_data_info(tlv) }

-----------------------------------------------------------------------------
(* Writing.  The results are the new entries, with the value in place.     *)

Entry(tlv, at, V, value) ==
  Write(Write(Write(tlv, at.type_start, WordBytes(V)), at.length_start, WordBytes(Len(value))),
        at.value_start, value)

alloc(S, tlv, V, value, overwrite) ==
  Then(get_extension_indices(tlv, V, TRUE), LAMBDA at :
    OkIf(/\ get_account_type(V) = S
         /\ Len(tlv) - at.type_start >= add_type_and_length_to_len(Len(value))
         /\ Len(value) <= U16_MAX
         /\ \/ Word(tlv, at.type_start) = 0
            \/ overwrite /\ Word(tlv, at.length_start) = Len(value),
         Entry(tlv, at, V, value)))

\* Mutant: the entries behind are moved without their last byte.
MovedShort(tlv, at, used_len, old, new) ==
  LET moved == CopyWithin(Write(tlv, at.length_start, WordBytes(new)),
                          at.value_start + old, used_len - 1, at.value_start + new)
  IN  IF new < old THEN Fill(moved, used_len - (old - new), used_len)
      ELSE Fill(moved, at.value_start + old, at.value_start + new)

\* An entry of the old length has become one of the new length, the ones behind it have
\* moved, and what was uncovered is zero.
Moved(tlv, at, used_len, old, new) ==
  LET moved == CopyWithin(Write(tlv, at.length_start, WordBytes(new)),
                          at.value_start + old, used_len, at.value_start + new)
  IN  IF new < old THEN Fill(moved, used_len - (old - new), used_len)
      ELSE Fill(moved, at.value_start + old, at.value_start + new)

realloc(tlv, V, value) ==
  Then(get_extension_indices(tlv, V, FALSE), LAMBDA at :
    Then(get_tlv_data_info(tlv), LAMBDA info :
      LET old == Word(tlv, at.length_start)
          new == Len(value)
      IN  OkIf(/\ old < new => info.used_len + (new - old) <= Len(tlv)
               /\ new <= U16_MAX,
               Write(Moved(tlv, at, info.used_len, old, new), at.value_start, value))))

\* AccountInfo::realloc: bytes that are added are zero.
Resize(d, n) == IF n <= Len(d) THEN Cut(d, 0, n) ELSE d \o Zeros(n - Len(d))

set_account_type(S, d) ==
  OkIf(/\ check_min_len_and_not_multisig(S, d)
       /\ S = "Account" => is_initialized(S, d)
       /\ HasType(S, d) /\ type_and_tlv_indices(S, d)
       /\ AccountTypeByte(d) \in {0, TypeByte(S)},
       Write(d, ACCOUNT_LEN, <<TypeByte(S)>>))

\* A mint or account that had no extensions gets its account type.
Typed(S, old_len, d) == IF old_len <= ACCOUNT_LEN THEN set_account_type(S, d) ELSE {d}

\* unpack, and an operation on the entries.
OnEntries(S, d, Op(_)) == Then(unpack(S, d), LAMBDA old : { WithTlv(d, tlv) : tlv \in Op(old) })

alloc_and_serialize(S, d, V, value, overwrite) ==
  Then(unpack(S, d), LAMBDA tlv :
    Then(try_get_new_account_len_for_extension_len(S, tlv, V, type_len[V]), LAMBDA n :
      Then(Typed(S, Len(d), IF n > Len(d) THEN Resize(d, n) ELSE d), LAMBDA t :
        OnEntries(S, t, LAMBDA old : alloc(S, old, V, value, overwrite)))))

alloc_and_serialize_variable_len_extension(S, d, V, value, overwrite) ==
  Then(unpack(S, d), LAMBDA tlv :
    Then(try_get_new_account_len_for_extension_len(S, tlv, V, Len(value)), LAMBDA n :
      LET exists == get_extension_bytes(S, tlv, V) # {}
          Put(t) == OnEntries(S, t, LAMBDA old : IF exists THEN realloc(old, V, value)
                                                 ELSE alloc(S, old, V, value, FALSE))
      IN  IF exists /\ ~overwrite THEN {}
          ELSE IF Len(d) < n
            THEN Then(IF exists THEN {Resize(d, n)} ELSE Typed(S, Len(d), Resize(d, n)), Put)
          ELSE { Resize(t, n) : t \in Put(d) }))

-----------------------------------------------------------------------------
(* Instructions.                                                           *)

\* The system program creates the account with the size the client works out with
\* try_calculate_account_len or asks GetAccountDataSize for, or with a larger one.
Create(S, types, slack) ==
  /\ data = <<>>
  /\ \E n \in try_calculate_account_len(S, types) :
       /\ n + slack <= MaxLen
       /\ data' = Zeros(n + slack)
  /\ promised' = IF slack = 0 THEN types ELSE {}

\* The initializers of mint extensions, and InitializeImmutableOwner.
InitializeExtension(S, V, value) ==
  /\ S = "Account" => V = ImmutableOwner
  /\ V \notin {TokenMetadata, TokenGroup, TokenGroupMember}
  /\ Len(value) = type_len[V]
  /\ \E tlv \in unpack_uninitialized(S, data) :
       \E new \in alloc(S, tlv, V, value, TRUE) : data' = WithTlv(data, new)
  /\ UNCHANGED promised

\* _process_initialize_mint.
InitializeMint ==
  /\ \E tlv \in unpack_uninitialized("Mint", data) :
       /\ \E types \in get_extension_types(tlv) :
            /\ Len(data) \in try_calculate_account_len("Mint", types)
            /\ check_for_invalid_mint_extension_combinations(types)
       /\ FirstMatches("Mint", tlv)
       /\ LET base == Write(data, MINT_LEN - 1, <<1>>)
          IN  data' = IF HasType("Mint", data)
                        THEN Write(base, ACCOUNT_LEN, <<TypeByte("Mint")>>) ELSE base
  /\ UNCHANGED promised

\* init_account_extension_from_type for the first i required types, one after the other;
\* the values are the defaults.
WithRequired(tlv, required) ==
  LET After[i \in 0..Len(required)] ==
        IF i = 0 THEN {tlv}
        ELSE Then(After[i - 1], LAMBDA t :
               alloc("Account", t, required[i], Zeros(type_len[required[i]]), TRUE))
  IN  After

InitializeRequired(tlv, required) == WithRequired(tlv, required)[Len(required)]

\* _process_initialize_account: key_byte is the byte of the account's keys that lies
\* where a mint says that it is initialized.
InitializeAccount(required, key_byte) ==
  /\ \E tlv \in unpack_uninitialized("Account", data) :
       /\ \E n \in try_calculate_account_len("Account", ToSet(required)) : n <= Len(data)
       /\ \E new \in InitializeRequired(tlv, required) :
            /\ FirstMatches("Account", new)
            /\ LET base == Write(Write(data, MINT_LEN - 1, <<key_byte>>), ACCOUNT_LEN - 1, <<1>>)
                   typed == IF HasType("Account", data)
                              THEN Write(base, ACCOUNT_LEN, <<TypeByte("Account")>>) ELSE base
               IN  data' = WithTlv(typed, new)
  /\ UNCHANGED promised

\* Handlers that write an extension of an initialized mint or account: get_extension_mut,
\* or for the account extensions toggled later init_extension where there is none.
UpdateExtension(S, V, value) ==
  /\ Len(value) = type_len[V]
  /\ \E tlv \in unpack(S, data) :
       /\ get_extension_bytes(S, tlv, V) # {} \/ V = MemoTransfer
       /\ \E new \in alloc(S, tlv, V, value, TRUE) : data' = WithTlv(data, new)
  /\ UNCHANGED promised

\* process_reallocate, the bytes of it.
Reallocate(types) ==
  /\ \A V \in types : get_account_type(V) = "Account"
  /\ \E tlv \in unpack("Account", data) :
       \E present \in get_extension_types(tlv) :
         /\ \E n \in try_calculate_account_len("Account", present \cup types) :
              IF Len(data) >= n THEN UNCHANGED data
              ELSE n <= MaxLen /\ data' \in set_account_type("Account", Resize(data, n))
         /\ promised' = present \cup types

\* token_group: InitializeGroup and InitializeMember, which refuse to overwrite.
InitializeTokenGroup(V, value) ==
  /\ V \in {TokenGroup, TokenGroupMember}
  /\ Len(value) = type_len[V]
  /\ data' \in alloc_and_serialize("Mint", data, V, value, FALSE)
  /\ Len(data') <= MaxLen
  /\ UNCHANGED promised

\* token_metadata: Initialize does not overwrite, the updates do and need what they change.
InitializeMetadata(value) ==
  /\ data' \in alloc_and_serialize_variable_len_extension("Mint", data, TokenMetadata, value, FALSE)
  /\ Len(data') <= MaxLen
  /\ UNCHANGED promised

UpdateMetadata(value) ==
  /\ \E tlv \in unpack("Mint", data) : get_extension_bytes("Mint", tlv, TokenMetadata) # {}
  /\ data' \in alloc_and_serialize_variable_len_extension("Mint", data, TokenMetadata, value, TRUE)
  /\ Len(data') <= MaxLen
  /\ UNCHANGED promised

\* CloseAccount: delete_account.
CloseAccount ==
  /\ \E S \in {"Mint", "Account"} : unpack(S, data) # {}
  /\ data' = <<>>
  /\ promised' = {}

Init ==
  /\ data = <<>>
  /\ promised = {}

InUse == DOMAIN type_len

Next ==
  \/ \E S \in {"Mint", "Account"}, types \in Reserved, slack \in Slack :
       (\A V \in types : get_account_type(V) = S) /\ Create(S, types, slack)
  \/ \E V \in InUse, value \in Contents :
       InitializeExtension(get_account_type(V), V, value)
  \/ InitializeMint
  \/ \E required \in Required, key_byte \in {0, 1} : InitializeAccount(required, key_byte)
  \/ \E V \in InUse, value \in Contents : UpdateExtension(get_account_type(V), V, value)
  \/ \E types \in Reserved : Reallocate(types)
  \/ \E V \in InUse, value \in Contents : InitializeTokenGroup(V, value)
  \/ \E value \in Contents : InitializeMetadata(value)
  \/ \E value \in Contents : UpdateMetadata(value)
  \/ CloseAccount

Spec == Init /\ [][Next]_vars

-----------------------------------------------------------------------------

\* Every variable has its type.
TypeOK ==
  /\ data \in Seq(u8) /\ Len(data) <= MaxLen
  /\ promised \in SUBSET (MintTypes \cup AccountTypes)

\* The types stored, as the walk through the entries finds them.
PresentIn(d) == UNION get_extension_types(Entries(d))
Present == PresentIn(data)

KindOf(d) ==
  CASE unpack("Mint", d) # {} -> "Mint"
    [] unpack("Account", d) # {} -> "Account"
    [] OTHER -> "Uninitialized"
Kind == KindOf(data)

\* After any sequence of instructions the bytes mean one thing.  The entries can be walked
\* to their end, no type is there twice (the second would never be found), and all are of
\* the account's own kind; behind the last one everything is zero, whatever was shrunk or
\* moved before (a byte left over would be read as the type of a next entry).  No bytes
\* pass for a mint and for a token account, and an initialized one can neither be unpacked
\* as the other kind nor initialized again.
WellFormed ==
  /\ TypeOK
  /\ \E info \in get_tlv_data_info(Entries(data)) :
       /\ \A i, j \in DOMAIN info.extension_types :
            i # j => info.extension_types[i] # info.extension_types[j]
       /\ \E S \in {"Mint", "Account"} :
            /\ Kind \in {"Uninitialized", S}
            /\ \A V \in ToSet(info.extension_types) : get_account_type(V) = S
       /\ \A i \in info.used_len..(Len(Entries(data)) - 1) : Byte(Entries(data), i) = 0
  /\ ~(unpack("Mint", data) # {} /\ unpack("Account", data) # {})
  /\ Kind # "Uninitialized" =>
       \A S \in {"Mint", "Account"} : unpack_uninitialized(S, data) = {}

\* The size worked out for a set of extensions is enough for each of them, in any order,
\* next to the others: try_calculate_account_len, GetAccountDataSize and Reallocate keep
\* their word, also where the sum is the size of a multisig.
PromisedFits ==
  (data # <<>> /\ Present \subseteq promised) =>
    \A V \in promised :
      LET S == get_account_type(V)
      IN  Kind \in {"Uninitialized", S} =>
            \E tlv \in unpack(S, data) \cup unpack_uninitialized(S, data) :
              alloc(S, tlv, V, Zeros(type_len[V]), TRUE) # {}

\* The map from types to values that the bytes stand for; a list that cannot be walked
\* stands for none.
StoredIn(d) ==
  IF get_tlv_data_info(Entries(d)) = {} THEN [V \in {0} |-> <<>>]
  ELSE [V \in PresentIn(d) |->
          CHOOSE value \in get_extension_bytes(get_account_type(V), Entries(d), V) : TRUE]
Stored == StoredIn(data)

DefaultValue(V) == Zeros(type_len[V])
TypesInUse ==
  [S \in {"Mint", "Account"} |-> { V \in InUse \cup {TokenMetadata} : get_account_type(V) = S }]

Map == INSTANCE ExtensionMap
         WITH kind <- Kind, exts <- Stored, Values <- Contents, TypesOf <- TypesInUse,
              Default <- DefaultValue

\* Each instruction changes the one extension it is about: every other value survives
\* allocation, shifting, shrinking and growing (the abstract map is implemented).
ImplementsMap == Map!Spec

=============================================================================
