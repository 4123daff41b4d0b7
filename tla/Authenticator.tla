--------------------------- MODULE Authenticator ---------------------------
(***************************************************************************)
(* tradecore::auth::Authenticator and FrameAuthenticator                   *)
(* (libs/auth/src/authenticator.cpp).  A key stands for its pair, and a    *)
(* signature for the key that made it.  get_public_key returns a pointer   *)
(* into keys_ and gives up the mutex: the key is read a step later.        *)
(***************************************************************************)
EXTENDS Integers, Sequences

CONSTANTS kSignatureSize,  \* bytes at the start of a payload
          NoKey

VARIABLES keys_,  \* account -> public key
          key     \* the account whose entry the verifying thread points to

auth_vars == <<keys_, key>>

AuthInit == keys_ = <<>> /\ key = NoKey

register_account(a, k) ==
    /\ keys_' = [b \in DOMAIN keys_ \cup {a} |-> IF b = a THEN k ELSE keys_[b]]
    /\ UNCHANGED key

\* verify_frame up to the pointer: the payload holds a signature, and the account is
\* known.
get_public_key(f) ==
    /\ Len(f.payload) >= kSignatureSize
    /\ f.account \in DOMAIN keys_
    /\ key' = f.account
    /\ UNCHANGED keys_

verify_fails(f) ==
    /\ Len(f.payload) < kSignatureSize \/ f.account \notin DOMAIN keys_
    /\ UNCHANGED auth_vars

\* Mutant: the library's result, 0 for a good signature, is taken for a Boolean.
VerdictOf_inverted(f) == IF keys_[key] = f.signer THEN {FALSE} ELSE {TRUE}

\* verify_with_key.  The signature is over the bytes of the header as a struct, its
\* padding too, which nothing sets: a good signature may be refused.
VerdictOf(f) == IF keys_[key] = f.signer THEN BOOLEAN ELSE {FALSE}

verified == key' = NoKey /\ UNCHANGED keys_
=============================================================================
