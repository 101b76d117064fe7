SPECIFICATION FairSpec
CONSTANTS
  Topics = {slideshow_active}
  Active = slideshow_active
  MaxUnderWay = 1
  MaxCalls = 1
PROPERTIES
  ReflectsSlideshow
