\* the constants of Scripts.cfg; what becomes of the keys of the services
CONSTANTS
  pgl = pgl  rmq = rmq  kindOfPgl = kindOfPgl  kindOfRmq = kindOfRmq
  p1 = p1  p2 = p2  q1 = q1
  OneTime = {p1, p2}
  Shell = {q1}
  Services <- TwoServices
  Kinds <- TwoKinds
  Credentials = {"Credentials-1"}
  MaxStarts = 3
  MaxFaults = 2
  r1 = r1  r2 = r2  f1 = f1
  Runs = {r1, r2, f1}
  WithFile = {f1}
  Lines = 4
  es = es  phix = phix
  Bound = {es, pgl, rmq}
  Ups = env_setup
  UpsKeys = {phix, pgl}
  OldFile = OldFile  Torn = Torn
  Timeout = 4
  MaxClock = 5
  MaxRestarts = 1
  key = key  hostkey = hostkey  text = text
  MaxLines = 2
  MaxRecords = 2
  Provinces = {"QC", "ON"}
  Types = {"WAY", ""}
  Directions = {"SO", "XX"}
  Numbers = {"12A", "12"}
  Routes = {"", "RR 1"}
SPECIFICATION FairSpec_s
INVARIANT KeysCreated
CHECK_DEADLOCK FALSE
