\* A rolling update: two images, two migrations, two accounts, two passwords.
CONSTANTS
  old = old
  new = new
  migrate = migrate
  executor = executor
  Processes = {old, new, migrate, executor}
  Kind <- KindOf
  Known <- KnownOf
  Latest = 2
  LastAccount = 2
  Passwords = {w1, w2}
  Nobody = Nobody
  MaxFaults = 1
SPECIFICATION FairStartupSpec
INVARIANTS StartupTypeOK MigratedOnceInOrder ReadyWhenRunning
PROPERTIES PasswordsKept SomebodyMigrates ExecutorRecovers
