---------------------------- MODULE MCDogMotion ----------------------------
(* DogMotion on two of the maps of config.json, read in the order of its    *)
(* roads.  Coordinates there are in map units.                             *)
EXTENDS DogMotion

H(x0, y0, x1) == [start |-> [x |-> 10 * x0, y |-> 10 * y0],
                  end   |-> [x |-> 10 * x1, y |-> 10 * y0]]
V(x0, y0, y1) == [start |-> [x |-> 10 * x0, y |-> 10 * y0],
                  end   |-> [x |-> 10 * x0, y |-> 10 * y1]]

town == <<H(0, 0, 40), V(40, 0, 30), H(40, 30, 0), H(0, 15, 40), V(20, 0, 30),
          H(0, 22, 17), V(17, 18, 27), V(10, 22, 30), H(0, 10, 10),
          V(10, 10, 5), H(10, 5, 20), V(20, 30, 40), H(20, 40, 10),
          H(20, 40, 30), V(30, 0, 10), H(20, 25, 25), V(30, 25, 30),
          H(20, 20, 25), V(30, 15, 20), H(35, 20, 40), H(40, 25, 35),
          V(30, 30, 35)>>

map3 == <<V(2, 2, 16), V(12, 7, 0), V(20, 0, 14), V(14, 16, 14), V(8, 7, 14),
          H(2, 7, 20), H(12, 0, 20), H(20, 14, 8), H(2, 16, 14)>>

ShortDeltas == {1, 3}
LongDelta == {5}
=============================================================================
