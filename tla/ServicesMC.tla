----------------------------- MODULE ServicesMC -----------------------------
(***************************************************************************)
(* A small instance of Services for TLC.                                   *)
(***************************************************************************)
EXTENDS Services, TLC

Symmetry == Permutations(Actors)

OwnContainer == [m \in {"calm", "wake"} |-> "mint"]
OfEach == [commands |-> 1, bookings |-> 1, changes |-> 1, reads |-> 1]

\* The tables in view of one behaviour.
SomeRecordScenes ==
  {{"region", "zone"}, {"zone", "location"}, {"location", "pod"}, {"defuser", "pod"},
   {"playlist", "music"}, {"playlist", "mood"}}
SomeCatalogScenes ==
  {{"collection", "product"}, {"brand", "category"}, {"category", "subcategory", "product"},
   {"product", "variant", "item"}, {"order", "item", "payment"}, {"address", "order"},
   {"variant", "subscription"}, {"warehouse", "inventory"}, {"product", "review"}}

\* Two files share a number and the third is stamped before the second, as entries 35 and 36
\* of the repository's journal are.
S(op, on) == [op |-> op, on |-> on]
JournalOf == <<
  [stamp |-> 1, body |-> <<S("create", "x"), S("create", "y")>>],
  [stamp |-> 3, body |-> <<S("data", "x"), S("create", "z"), S("data", "z")>>],
  [stamp |-> 2, body |-> <<S("create", "w")>>],
  [stamp |-> 4, body |-> <<S("drop", "x"), S("data", "y")>>] >>
LegacyOf ==
  {[x |-> 0, y |-> -1, z |-> -1, w |-> -1], [x |-> 0, y |-> 0, z |-> 0, w |-> -1],
   [x |-> -1, y |-> -1, z |-> 0, w |-> -1]}

PresetOf == [s \in {"owner"} |-> {"account", "wallet"}]

TwoFolders == <<"Calm", "uplifted">>
SyncMapOf == [Calm |-> "calm", Uplift |-> "uplifted"]
=============================================================================
