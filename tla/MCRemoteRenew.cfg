SPECIFICATION Spec
CONSTANT Plans <- OutlivingPlans
INVARIANT WithinParent
