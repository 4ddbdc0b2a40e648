SPECIFICATION Spec
CONSTANTS
    a = a
    b = b
    Devices = {a, b}
    None = None
    Cash = Cash
    Stash = Stash
    Spare = Spare
    Costs = Costs
    Wages = Wages
    Rent = Rent
    Salary = Salary
    Trip = Trip
    Visit = Visit
    Loan = Loan
    Preset = Preset
    Settings = Settings
    NewAccount = NewAccount
    NewGoal = NewGoal
    Commands <- EveryCommand
    MaxCommands = 2
  
PROPERTIES CommandsNeverOverdraw  PatchNeverOverwrites
SYMMETRY Symmetry
CHECK_DEADLOCK FALSE
