----------------------------- MODULE ExecutorMC -----------------------------
(* Small instances of Executor for TLC. *)
EXTENDS Executor

ConfigsWith(policies, slotCounts) ==
    [policy : policies, sortPrint : BOOLEAN, concurrency : slotCounts]

OneSlot == ConfigsWith({"first"}, {1})

\* Every policy behind one slot, and two targets side by side.
SmallConfigs ==
    ConfigsWith({"first", "any", "always-zero"}, {1}) \cup ConfigsWith({"first"}, {2})
=============================================================================
