SPECIFICATION Spec
CONSTANTS
  Numbers = {p1, p2, p3}
  Handlers <- Mix
  Kind <- KindOf
  Protocol <- ProtocolOf
  Names <- TemplateNames
  Template <- TemplateOf
  s = s
  x = x
  g = g
  Unnamed = Unnamed
  Nobody = Nobody
  Other = Other
SYMMETRY Interchangeable
INVARIANTS
  TypeOK
  PortsLeadHome
\* a failed run goes no further
CHECK_DEADLOCK FALSE
