SPECIFICATION Spec
CONSTANTS
  Tasks = {t1, t2}
  Letters = {"a"}
  Repeating = {"a"}
  MaxScan = 1
INVARIANT TypeOK UnmaskedAreHandled ServiceEndsInHandler TasksInterruptible EchoesWhatWasTyped
PROPERTY KeysAreRead TimerNeverStops
