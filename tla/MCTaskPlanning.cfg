SPECIFICATION Spec
CONSTANTS
  Projects = {"p1", "p2"}
  Names <- MCNames
  Flows <- MCFlows
  Valid <- validate
  Order <- TopoOrder
  Decompositions <- MCDecompositions
  MaxWorkflows = 1
  MaxTasks = 4
  MaxPlans = 2
INVARIANTS ComposedPlanIsRunnable ActiveBindingUsable
PROPERTY ComposedOrderEnforced
