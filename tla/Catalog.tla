------------------------------ MODULE Catalog ------------------------------
(***************************************************************************)
(* src/local_runtime/catalog.py, ToolCatalog.  refresh asks one provider   *)
(* after the other outside the lock and publishes what it collected in one *)
(* lock block; any number of threads refresh at once.  Of a descriptor     *)
(* only the name matters.  Collections and the snapshot are sequences: the *)
(* i-th member has the names the i-th provider gave, in their order.       *)
(***************************************************************************)
EXTENDS Naturals, Sequences

CONSTANTS
  Refresher,   (* threads that may call refresh                             *)
  Providers,   (* how many providers they pass                              *)
  Name,        (* tool names                                                *)
  Offers       (* the sequences of them a provider may give when asked      *)

ASSUME CatalogAssumption ==
  /\ Providers \in Nat
  /\ Offers \subseteq Seq(Name)

VARIABLES
  tools,       (* `_tools`, empty until the first refresh                   *)
  collected    (* `replacement` in each call of refresh                     *)

Collections == UNION {[1..n -> Offers] : n \in 0..Providers}

CatalogTypeOK ==
  /\ tools \in Collections
  /\ collected \in [Refresher -> Collections]

CatalogInit ==
  /\ tools = <<>>
  /\ collected = [r \in Refresher |-> <<>>]

Names(offer) == {offer[k] : k \in DOMAIN offer}

Taken(r) == UNION {Names(collected[r][i]) : i \in DOMAIN collected[r]}

(* A descriptor by descriptor look finds no name that is there already. *)
IsNew(r, offer) ==
  /\ Names(offer) \cap Taken(r) = {}
  /\ \A k, l \in DOMAIN offer : offer[k] = offer[l] => k = l

(* A refresh that fills the published snapshot as it goes. *)
CollectsInPlace(r, offer) ==
  /\ Len(collected[r]) < Providers
  /\ IsNew(r, offer)
  /\ collected' = [collected EXCEPT ![r] = Append(@, offer)]
  /\ tools' = collected'[r]

(* A refresh that asks a provider again when all have answered. *)
CollectsAgain(r, offer) ==
  /\ IsNew(r, offer)
  /\ collected' = [collected EXCEPT ![r] = Append(@, offer)]
  /\ UNCHANGED tools

(* The next provider gives names, none of them taken and none twice. *)
Collects(r, offer) ==
  /\ Len(collected[r]) < Providers
  /\ IsNew(r, offer)
  /\ collected' = [collected EXCEPT ![r] = Append(@, offer)]
  /\ UNCHANGED tools

(* The exception drops what was collected; the snapshot stays. *)
Abandons(r) ==
  /\ Len(collected[r]) < Providers
  /\ collected' = [collected EXCEPT ![r] = <<>>]
  /\ UNCHANGED tools

(* One of them is taken or given twice: MultiMcpError. *)
Duplicate(r, offer) == ~IsNew(r, offer) /\ Abandons(r)

(* The provider raises, before its first descriptor or after some. *)
ProviderRaises(r) == Abandons(r)

(* The lock block. *)
Publishes(r) ==
  /\ Len(collected[r]) = Providers
  /\ tools' = collected[r]
  /\ collected' = [collected EXCEPT ![r] = <<>>]

(* "Readers never observe a half-refresh": what tools/list returns has the *)
(* tools of every provider, from one collection, with no name twice.       *)
NeverHalfRefreshed ==
  /\ Len(tools) \in {0, Providers}
  /\ \A i, j \in DOMAIN tools :
       \A k \in DOMAIN tools[i], l \in DOMAIN tools[j] :
         tools[i][k] = tools[j][l] => i = j /\ k = l
=============================================================================
