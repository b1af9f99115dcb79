CONSTANTS
  w1 = w1 w2 = w2 white = white brown = brown tagged = tagged pla = pla petg = petg red = red
  NoSpool = NoSpool
  Wires = {w1, w2}
  Spools = {white, brown, tagged}
  Tagged = {tagged}
  Filaments = {pla, petg}
  Colours = {red}
  LateLands = FALSE
  Seats <- MCSeats
  Troubles <- MCTroubles
SPECIFICATION RefillInsistSpec
INVARIANT RefillSound
PROPERTIES TheirsIsKept RemovalHasNoDeadEnd
CHECK_DEADLOCK FALSE
