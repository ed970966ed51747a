\* Every list, container, protocol and mix of faults, at most two faults and two
\* changes of Proton's figures.
SPECIFICATION LiveSpec
CONSTANTS
  a = a  b = b
  Servers <- Both
  Allowed <- Both
  P2P <- JustA
  Wireguard <- JustB
  Plus <- JustB
  Loads <- Percents
  MaxLoad = 90
  Containers <- AnyContainer
  Protocols <- Either
  FaultMixes <- Mixes
  MaxFaults = 2
  MaxTime = 2
INVARIANTS CandidatesAreUsable ComparisonIsFair NoOscillation
           InferenceNeverStrands
PROPERTIES OperatorFilterIsMet LoadsNeverGoBack Converges
