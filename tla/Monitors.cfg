SPECIFICATION MonitorsFairSpec
CONSTANTS
  Services = {rabbit, mysql, emqx}
  rabbit = rabbit
  mysql = mysql
  emqx = emqx
  Rabbit = {rabbit}
  NoService = none
  Urls = {u1, u2}
  u1 = u1
  u2 = u2
  NoUrl = none
  Replies = {"nothing", "unparsed", "200", "other"}
INVARIANTS TypeOK LeaksBounded RestfulTypeOK
PROPERTIES ImplementsProbeCycle CycleEnds RestfulsImplementCycle RestfulCycleEnds
