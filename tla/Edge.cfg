\* Three visits, so that a rate limit of one request is passed, in a window or after one.
CONSTANTS
  Site = Site
  Elsewhere = Elsewhere
  Origin = Origin
  Agents = {bot, Bot, bots}
  Countries = {IT, DE}
  Clients <- MCClients
  Within <- MCWithin
  WithinFold <- MCWithinFold
  Segments <- MCSegments
  Probe = Probe
  Capture = Capture
  Dynamic = Dynamic
  Nothing = Nothing
  bot = bot
  Bot = Bot
  bots = bots
  IT = IT
  DE = DE
  Other = Other
  old = old
  new = new
  a = a
  x = x
  Paths <- MCPaths
  Zones <- MCZones
  MaxVisits = 3
  MaxHops = 6
SPECIFICATION EdgeSpec
INVARIANTS BlockedStaysBlocked ArrivesAlike GateSeesRedirects
\* A behaviour ends when its visits are used up.
CHECK_DEADLOCK FALSE
