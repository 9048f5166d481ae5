SPECIFICATION RestfulSpec
CONSTANTS
  Urls = {u1}
  u1 = u1
  NoUrl = none
  Replies = {"nothing", "unparsed", "200", "other", "badField", "noCode"}
PROPERTY UpMeans200
