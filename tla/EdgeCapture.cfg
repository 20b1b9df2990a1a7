\* A Page Rule that forwards /* to a target with $1.
CONSTANTS
  Site = Site
  Elsewhere = Elsewhere
  Origin = Origin
  Agents = {bot, Bot, bots}
  Countries = {IT, DE}
  Clients <- MCClients
  Within <- MCWithin
  WithinFold <- MCWithinFold
  Segments <- MCSegments
  Probe = Probe
  Capture = Capture
  Dynamic = Dynamic
  Nothing = Nothing
  bot = bot
  Bot = Bot
  bots = bots
  IT = IT
  DE = DE
  Other = Other
  old = old
  new = new
  a = a
  x = x
  Paths <- MCPaths
  Zones <- MCCaptures
  MaxVisits = 1
  MaxHops = 6
SPECIFICATION EdgeSpec
INVARIANT NoCaptureSent
\* A behaviour ends when its visits are used up.
CHECK_DEADLOCK FALSE
