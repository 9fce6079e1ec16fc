SPECIFICATION FairSpec
CONSTANTS
  Container = {1, 2}
  MaxKills = 1
INVARIANTS TypeOK ShellIsConnected NetworkBeforeShell HostRestored
PROPERTIES ChildReleased CapsuleEnds
