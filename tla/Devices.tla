------------------------------ MODULE Devices ------------------------------
(***************************************************************************)
(* Pairing links and paired devices: the tables pairing_secrets and        *)
(* devices of the daemon's store (crates/ompd/src/persistence/store.rs).   *)
(*                                                                         *)
(* Each operation is one critical section of the store's mutex and one     *)
(* transaction of its database, so it is one step here and survives a      *)
(* crash whole.  Ids are random: a device's id is its position in the      *)
(* sequence of inserts.  Who knows the id and the secret of a row is who   *)
(* was given them, so that the comparison of hashes always succeeds; names *)
(* and timestamps are left out, and of the clock only whether a link has   *)
(* expired is kept.                                                        *)
(***************************************************************************)
EXTENDS Naturals, Sequences, FiniteSets

CONSTANTS
    Link,  \* pairing links
    Grants \* the scopes each link was created with

Scope == {"observe", "prompt", "mutate_session", "stop_agent", "answer_ui",
          "administer_devices"}

ASSUME DevicesAssumption ==
    /\ IsFiniteSet(Link)
    /\ Grants \in [Link -> SUBSET Scope]

VARIABLES
    pairings, \* pairing_secrets: absent, open, expired or consumed
    devices   \* the devices table, in the order of its inserts

storeVars == <<pairings, devices>>

Device == 1 .. Cardinality(Link)

DeviceRecord == [from : Link, scopes : SUBSET Scope, revoked : BOOLEAN]

DevicesTypeOK ==
    /\ pairings \in [Link -> {"none", "open", "expired", "consumed"}]
    /\ devices \in Seq(DeviceRecord)
    /\ Len(devices) <= Cardinality(Link)

DevicesInit ==
    /\ pairings = [k \in Link |-> "none"]
    /\ devices = << >>

\* fn create_pairing, asked for by `ompd pair` on the administration socket.
create_pairing(k) ==
    /\ pairings[k] = "none"
    /\ pairings' = [pairings EXCEPT ![k] = "open"]
    /\ UNCHANGED devices

\* expires_at_ms passes.  A consumed link is refused as consumed.
Expire(k) ==
    /\ pairings[k] = "open"
    /\ pairings' = [pairings EXCEPT ![k] = "expired"]
    /\ UNCHANGED devices

\* The row of a link, as the transaction reads it: absent, consumed, expired or
\* neither, for the secret of that link.
load_pairing_raw(k) == pairings[k]

\* Mutant of Redeemable: a consumed link is refused only once it has expired.
RedeemableTwice(k) == load_pairing_raw(k) \in {"open", "consumed"}

\* The conditions of exchange_pairing: unknown, consumed or expired.
Redeemable(k) == load_pairing_raw(k) = "open"

\* fn exchange_pairing: the link is consumed and the device inserted in one
\* transaction.  The device has the scopes of the link.
exchange_pairing(k) ==
    /\ Redeemable(k)
    /\ pairings' = [pairings EXCEPT ![k] = "consumed"]
    /\ devices' = Append(devices, [from |-> k, scopes |-> Grants[k], revoked |-> FALSE])

\* Mutant of authenticate_device: revoked_at_ms is not looked at.
authenticate_any(d) == d \in DOMAIN devices

\* fn authenticate_device
authenticate_device(d) == d \in DOMAIN devices /\ ~devices[d].revoked

\* fn revoke_device: no row is changed when there is none, or a second time.
revoke_device(d) ==
    /\ devices' = IF d \in DOMAIN devices
                  THEN [devices EXCEPT ![d].revoked = TRUE] ELSE devices
    /\ UNCHANGED pairings

\* A pairing link makes one device at most: two clients that present the same
\* link, or one that retries after its welcome was lost, do not both get a
\* credential (exchange_pairing consumes the link in the transaction that
\* inserts the device).
PairingSingleUse ==
    \A d, e \in DOMAIN devices : devices[d].from = devices[e].from => d = e
=============================================================================
