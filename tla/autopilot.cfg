CONSTANTS
  LastMinute <- MCLastMinute
  Horizon = 58
  Days <- MCDays
  MinutesPerHour = 2
  HoursPerDay = 3
  DaysPerMonth = 3
  MonthsPerYear = 2
  DaysPerWeek = 2
  Dates <- MCDates
  Wall <- MCWall
  Instant <- MCInstant
  FirstOfMonth <- MCFirstOfMonth
  AddMonth <- MCAddMonth
  AddYears <- MCAddYears
  Gap = 1000
  Pilots = {1, 2}
  h1 = h1
  Hooks = {h1}
  NoHook = NoHook
  s1 = s1
  r1 = r1
  Schedulers = {s1}
  Handlers = {r1}
  Texts = {"hourly", "leapday", "wrong"}
  TextOf <- MCTextOf
  Inputs <- MCInputs
  Requests = {"create", "update", "delete", "trigger", "event", "toggle", "rename", "unhook"}
  MaxNow = 3
  MaxMishaps = 1
SPECIFICATION Spec
INVARIANTS TypeOK RowsAgree NothingSkipped
PROPERTY DueIsServed
CHECK_DEADLOCK FALSE
