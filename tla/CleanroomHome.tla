---------------------------- MODULE CleanroomHome ----------------------------
(***************************************************************************)
(* What the two temporary Codex homes of a clean-room comparison must look *)
(* like before a slot may run: a raw home that holds nothing and a lean    *)
(* home that differs from it by the Super SOL plugin alone.  Git and Codex *)
(* are not in the repository: a checkout and a built home are any of the   *)
(* values below.                                                           *)
(***************************************************************************)
EXTENDS FiniteSets

\* The plugin checkout: uncommitted changes, and whether HEAD is the commit of
\* the tag or of the 40-digit ref that was asked for.
Checkouts == [dirty : BOOLEAN, head_is_ref : BOOLEAN]
RevisionMatches(checkout) == ~ checkout.dirty /\ checkout.head_is_ref

\* Entries a home may hold: "skill" and "manifest" are the plugin's own,
\* "cached" any further file below the plugin's directory, "stray" one outside
\* it.  auth.json is copied before and left out of every inventory.
Entries == {"config", "skill", "manifest", "cached", "stray", "symlink"}
Homes == [listed : {"super-sol", "other", "disabled", "malformed"},
          source : {"checkout", "elsewhere"},
          raw_config : {"empty", "edited"},
          raw : SUBSET Entries, lean : SUBSET Entries]

ListingValid(homes) == homes.listed = "super-sol"
SourceValid(homes) == homes.source = "checkout"
\* The lean config is written anew before it is looked at; the raw one is not.
ConfigsValid(homes) == homes.raw_config = "empty"
InventoryValid(entries) == "symlink" \notin entries
PairValid(homes) ==
    /\ InventoryValid(homes.raw)
    /\ InventoryValid(homes.lean)
    /\ homes.raw = {"config"}
    /\ {"config", "skill", "manifest"} \subseteq homes.lean
    /\ "stray" \notin homes.lean

HomesValid(homes) ==
    ListingValid(homes) /\ SourceValid(homes) /\ ConfigsValid(homes) /\ PairValid(homes)

\* The digests kept in run.json: two valid pairs may still differ.
Evidence(homes) == << homes.raw, homes.lean >>
=============================================================================
