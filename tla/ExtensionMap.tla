---------------------------- MODULE ExtensionMap ----------------------------
(***************************************************************************)
(* What the rest of the program takes the extension storage of one account *)
(* to be: a map from extension types to values.  An instruction sets one   *)
(* entry and leaves the others alone, or makes the account a mint or a     *)
(* token account, or deletes it.  Tlv implements this with bytes.          *)
(***************************************************************************)
CONSTANTS
  TypesOf,     \* the extension types of each kind of account
  Values,      \* what an extension can hold
  Default(_)   \* what it holds at first

VARIABLES
  kind,        \* what the account is initialized as
  exts         \* extension type -> value

vars == <<kind, exts>>

Init ==
  /\ kind = "Uninitialized"
  /\ exts = <<>>

\* One extension is added or changed.
Put(K, V, value) ==
  /\ kind \in {"Uninitialized", K}
  /\ V \in TypesOf[K]
  /\ DOMAIN exts \subseteq TypesOf[K]
  /\ exts' = [W \in DOMAIN exts \cup {V} |-> IF W = V THEN value ELSE exts[W]]
  /\ UNCHANGED kind

\* The account is initialized; extensions its mint requires are added or reset.
Become(K) ==
  /\ kind = "Uninitialized"
  /\ kind' = K
  /\ DOMAIN exts \subseteq DOMAIN exts' /\ DOMAIN exts' \subseteq TypesOf[K]
  /\ \A V \in DOMAIN exts' : exts'[V] = Default(V) \/ (V \in DOMAIN exts /\ exts'[V] = exts[V])

Delete ==
  /\ kind' = "Uninitialized"
  /\ exts' = <<>>

Next ==
  \/ \E K \in DOMAIN TypesOf : \E V \in TypesOf[K], value \in Values : Put(K, V, value)
  \/ \E K \in DOMAIN TypesOf : Become(K)
  \/ Delete

Spec == Init /\ [][Next]_vars

=============================================================================
