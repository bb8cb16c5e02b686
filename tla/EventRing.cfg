\* Three events and four slots: every full ring over three events at every
\* position of the head.
CONSTANTS
  Event = {a, b, c}
  Cap = 4
  NoEvent = NoEvent
SPECIFICATION Spec
INVARIANT TypeOK
PROPERTY ImplementsBoundedLog
