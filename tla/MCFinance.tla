------------------------------ MODULE MCFinance ------------------------------
(* Two devices, whose users give any two commands between them.            *)
EXTENDS Finance, TLC

CONSTANTS a, b

LedgerCommands ==
    {"saveTransaction", "deleteTransaction", "adjustAccountBalance", "markCommitmentPaid",
     "linkTransactionToCommitment", "unlinkCommitmentPayment",
     "markPlannedIncomeReceived", "markPlannedEventPaid", "withdrawFromGoal",
     "contributeToGoal", "recordDebtPayment"}
PlanningCommands ==
    {"saveAccount", "deleteAccount", "saveCategory", "deleteCategory", "saveCommitment",
     "deleteCommitment", "savePlannedIncome", "deletePlannedIncome", "saveGoal",
     "deleteGoal", "saveDebt", "deleteDebt", "savePlannedEvent", "deletePlannedEvent",
     "savePreset", "deletePreset", "updateSettings", "resetAllFinanceData",
     "importPlanBlueprint", "replaceWithBackup", "preparePlanPatch"}
EveryCommand == LedgerCommands \cup PlanningCommands

Symmetry == Permutations(Devices)
=============================================================================
