-------------------------- MODULE MCRuntimeRouting --------------------------
(* TLC instance of RuntimeRouting: the catalog's tools and a role of the user's *)
(* own that needs a workspace and the network, which only a CLI has both of.     *)
EXTENDS RuntimeRouting
OneCli == <<"claude-code">>
TwoClis == <<"claude-code", "codex-cli">>
MCTools == {"workspace", "network"}
MCCapabilities ==
  [r \in Runtimes |-> IF r = "mock-runtime" THEN {"workspace"}
                      ELSE IF r = "model-api-only" THEN {"network"} ELSE MCTools]
MCRequires == [r \in Roles |-> MCTools]
=============================================================================
