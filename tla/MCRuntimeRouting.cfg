SPECIFICATION Spec
CONSTANTS
  Projects = {"p1"}
  Roles = {"role_custom_scraper"}
  cliOrder <- OneCli
  Tools <- MCTools
  capabilities <- MCCapabilities
  requires <- MCRequires
  failureThreshold = 3
  MaxFallbacks = 1
  MaxRuns = 3
INVARIANTS BreakerAgrees OneProbe
PROPERTIES AutoComposedTeamFits
