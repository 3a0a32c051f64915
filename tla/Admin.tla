------------------------------- MODULE Admin -------------------------------
(***************************************************************************)
(* Who may call the canister and the cached public key (admin/core.rs and  *)
(* crypto/address.rs).  init_pubkey looks at the cell, awaits              *)
(* ecdsa_public_key and then sets the cell without looking again; its      *)
(* suspended calls have no locals, so they are only counted.               *)
(***************************************************************************)
EXTENDS Integers, FiniteSets

CONSTANTS
    Principals,      \* callers, the anonymous one among them
    Anonymous,
    MAX_INIT_ADMINS, \* admins init takes at most (10)
    MaxKeyCalls,     \* bound: init_pubkey calls suspended together
    EmptyCell        \* nothing cached yet

(* Somebody can deploy. *)
ASSUME PrincipalAssumption ==
    /\ Anonymous \in Principals
    /\ Principals \ {Anonymous} # {}
    /\ MaxKeyCalls \in Nat

VARIABLES
    admins,      \* ADMINS
    pubkey_cell, \* PUBKEY_CELL
    key_calls    \* init_pubkey calls awaiting ecdsa_public_key (not stable)

adminVars == <<admins, pubkey_cell, key_calls>>

\* The key of this canister at a derivation path, in SEC1 encoding.
get_public_key(index) == [path |-> index, encoding |-> "uncompressed"]
signing_path == 0

AdminTypeOK ==
    /\ admins \subseteq Principals
    /\ pubkey_cell \in {EmptyCell, get_public_key(0)}
    /\ key_calls \in 0 .. MaxKeyCalls

\* init runs as the deployer, who becomes an admin with the given list.
init(deployer, list) ==
    /\ Cardinality(list) <= MAX_INIT_ADMINS
    /\ admins = (list \ {Anonymous}) \cup {deployer}

AdminInit ==
    /\ \E deployer \in Principals \ {Anonymous}, list \in SUBSET Principals :
          init(deployer, list)
    /\ pubkey_cell = EmptyCell
    /\ key_calls = 0

reject_anonymous(p) == p # Anonymous

ensure_admin(p) == p \in admins

\* Every update that changes state starts with both checks.
Authorised(p) == reject_anonymous(p) /\ ensure_admin(p)

set_admin(p, new_admin) ==
    /\ Authorised(p)
    /\ new_admin # Anonymous
    /\ admins' = admins \cup {new_admin}
    /\ UNCHANGED <<pubkey_cell, key_calls>>

\* init_pubkey up to its await: refused once the cell is filled.
init_pubkey(p) ==
    /\ Authorised(p)
    /\ pubkey_cell = EmptyCell
    /\ key_calls < MaxKeyCalls
    /\ key_calls' = key_calls + 1
    /\ UNCHANGED <<admins, pubkey_cell>>

\* The key arrives and is stored, whatever the cell holds by now.
pubkey_reply ==
    /\ key_calls > 0
    /\ pubkey_cell' = get_public_key(signing_path)
    /\ key_calls' = key_calls - 1
    /\ UNCHANGED admins

pubkey_failed ==
    /\ key_calls > 0
    /\ key_calls' = key_calls - 1
    /\ UNCHANGED <<admins, pubkey_cell>>

\* post_upgrade repairs a round as the upgrader, with the admin check of
\* that call: for anybody else it traps and the upgrade is undone.
AdminUpgrade(p) ==
    /\ ensure_admin(p)
    /\ key_calls' = 0
    /\ UNCHANGED <<admins, pubkey_cell>>

\* What verifiers are given: the cached key, compressed.
get_pubkey_hex ==
    IF pubkey_cell = EmptyCell THEN EmptyCell
    ELSE [pubkey_cell EXCEPT !.encoding = "compressed"]

=============================================================================
