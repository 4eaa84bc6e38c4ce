---------------------------- MODULE Submissions ----------------------------
(***************************************************************************)
(* validator/submissions.py, and the keys of gateway/provisioning.py: from *)
(* the round's commitments to laboratories that can run, and the keys that *)
(* were minted for them.  prepare_all and revoke_minted are loops of       *)
(* blocking calls; here each turn of a loop is a step.                     *)
(***************************************************************************)
EXTENDS Integers

CONSTANTS
  Uids,           \* the hotkeys with a commitment for the round, by uid
  bundle_digest,  \* per uid, the artifact it commits to
  management,     \* the uids whose credential is a management key
  owner_linked    \* the uids whose coldkey owns the subnet

ASSUME SubmissionsAssumption ==
  /\ Uids \subseteq Nat
  /\ DOMAIN bundle_digest = Uids
  /\ management \subseteq Uids
  /\ owner_linked \subseteq Uids

VARIABLES
  at,         \* where execute_step is
  outcome,    \* how it ended
  todo,       \* submissions not looked at yet
  kept,       \* uids whose digest is in kept_by_digest
  ready,
  refused,
  keys,       \* at the provider: minted keys that are alive
  held,       \* the minted keys of the laboratories this step prepared
  unrevoked,  \* history: keys whose revocation the provider did not confirm
  deaths      \* how often the process has died

preparation == <<todo, kept, ready, refused>>
provider    == <<keys, held, unrevoked>>

-----------------------------------------------------------------------------
(* A key is minted for one uid in one life of the process.  The provider   *)
(* may have one that the step does not hold: the answer to its mint was    *)
(* lost, or that to its deletion after a mint that was refused.            *)
Key == [uid : Uids, life : Nat, known : BOOLEAN]

KeyOf(u) == [uid |-> u, life |-> deaths, known |-> TRUE]

At == {"idle", "preparing", "prepared", "executing", "revoking", "writing", "over"}

SubmissionsTypeOK ==
  /\ at \in At
  /\ outcome \in {"none", "unstarted", "raised", "returned"}
  /\ todo \subseteq Uids
  /\ kept \subseteq Uids
  /\ ready \subseteq Uids
  /\ refused \subseteq Uids
  /\ keys \subseteq Key
  /\ held \subseteq Key
  /\ unrevoked \subseteq Key
  /\ deaths \in Nat

SubmissionsInit ==
  /\ at = "idle"
  /\ outcome = "none"
  /\ todo = {} /\ kept = {} /\ ready = {} /\ refused = {}
  /\ keys = {} /\ held = {} /\ unrevoked = {}
  /\ deaths = 0

-----------------------------------------------------------------------------
(* prepare_all: owner-linked first, then copies, then the work.            *)

(* The pack is not stored, or the chain cannot be viewed: the step raises. *)
NothingRead ==
  /\ at = "idle"
  /\ at' = "over"
  /\ outcome' = "unstarted"
  /\ UNCHANGED <<preparation, provider, deaths>>

BeginPreparing ==
  /\ at = "idle"
  /\ at' = "preparing"
  /\ todo' = Uids
  /\ UNCHANGED <<outcome, kept, ready, refused, provider, deaths>>

IsNext(u) == /\ at = "preparing"
             /\ u \in todo
             /\ \A v \in todo : u <= v

(* Slip: a copy looked for among the prepared laboratories.                *)
IsCopy_OfPrepared(u) == \E v \in ready : bundle_digest[v] = bundle_digest[u]

IsCopy(u) == \E v \in kept : bundle_digest[v] = bundle_digest[u]

RefuseUnread(u) ==
  /\ IsNext(u)
  /\ u \in owner_linked \/ IsCopy(u)
  /\ todo' = todo \ {u}
  /\ refused' = refused \cup {u}
  /\ UNCHANGED <<at, outcome, kept, ready, provider, deaths>>

Attempt(u) == /\ IsNext(u)
              /\ ~ (u \in owner_linked \/ IsCopy(u))
              /\ todo' = todo \ {u}
              /\ kept' = kept \cup {u}

(* Fetched, verified, loaded, opened; a management key mints a round key.  *)
Prepare(u) ==
  /\ Attempt(u)
  /\ ready' = ready \cup {u}
  /\ LET minted == IF u \in management THEN {KeyOf(u)} ELSE {}
     IN  keys' = keys \cup minted /\ held' = held \cup minted
  /\ UNCHANGED <<at, outcome, refused, unrevoked, deaths>>

(* Any step of it fails: this submission is refused.  A mint whose answer  *)
(* is lost may have made a key.                                            *)
PrepareFails(u) ==
  /\ Attempt(u)
  /\ refused' = refused \cup {u}
  /\ \/ UNCHANGED keys
     \/ /\ u \in management
        /\ keys' = keys \cup {[KeyOf(u) EXCEPT !.known = FALSE]}
  /\ UNCHANGED <<at, outcome, ready, held, unrevoked, deaths>>

(* It fails with an exception prepare_all does not catch (a JSON file that *)
(* is not an object, read with .get): that leaves execute_step.            *)
PrepareRaises(u) ==
  /\ Attempt(u)
  /\ at' = "over"
  /\ outcome' = "unstarted"
  /\ UNCHANGED <<ready, refused, provider, deaths>>

Prepared ==
  /\ at = "preparing"
  /\ todo = {}
  /\ at' = "prepared"
  /\ UNCHANGED <<outcome, preparation, provider, deaths>>

-----------------------------------------------------------------------------
(* revoke_minted: every key is tried, none ends the loop.                  *)

Revoke(key) ==
  /\ at = "revoking"
  /\ key \in held
  /\ held' = held \ {key}
  /\ \/ /\ keys' = keys \ {key}
        /\ UNCHANGED unrevoked
     \/ /\ unrevoked' = unrevoked \cup {key}
        /\ \/ UNCHANGED keys
           \/ keys' = keys \ {key}
  /\ UNCHANGED <<at, outcome, preparation, deaths>>

-----------------------------------------------------------------------------
(* Of several miners that commit to the same bytes one is run, the one     *)
(* that registered first; an owner-linked one never is.                    *)
OneCopy ==
  \A u \in ready :
    /\ u \notin owner_linked
    /\ \A v \in Uids \ owner_linked :
         bundle_digest[v] = bundle_digest[u] => u <= v

(* Once anything was executed, a step that has ended, however it ended,    *)
(* has revoked every key it held, but for those the provider would not     *)
(* confirm.                                                                *)
KeysRevoked ==
  at = "over" /\ outcome # "unstarted" =>
    \A key \in keys : key.life = deaths /\ key.known => key \in unrevoked
=============================================================================
