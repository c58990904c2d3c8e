\* Imports beside mutations that delete from the table.
SPECIFICATION MCSpec
CONSTANTS
    Instances = {"canceled"}
CHECK_DEADLOCK FALSE
PROPERTIES
  NoIntermediateState
